---- MODULE Spec2Model ----
(***************************************************************************)
(* Model of the Twitter crypto leaderboard: the background scheduler       *)
(* update_leaderboard (src/app.py), the two serving routes that read the   *)
(* published state, and the follower-history store of TwitterScraper       *)
(* (src/utils/twitter_scraper.py).                                         *)
(*                                                                         *)
(* Time is in whole seconds, as int(time.time()) gives it.  A percentage   *)
(* (a Python float) is kept as an exact fraction <<num, den>>, den > 0.    *)
(* Python's None is the empty tuple <<>>, Some(x) is <<x>>.                *)
(***************************************************************************)
EXTENDS Integers, Sequences, FiniteSets, TLC

(* ------------------------------ bounds -------------------------------- *)

\* how many of the ten tracked tokens the model follows
NumTokens == 2
\* how many iterations of the scheduler's while-loop the model follows
MaxCycles == 2
\* how many points the history files may hold together
MaxHist == 3
\* last clock value of the history-store specification, in half days
MaxHalfDays == 3
\* calls of generate_leaderboard in one behaviour
MaxRuns == 2
\* how many rows the metrics table may hold
MaxRows == 3
\* how many iterations of the scheduler's loop the fairness specification follows
FairCycles == 1

(* ------------------------- program constants -------------------------- *)

\* app.py line 141: await asyncio.sleep(300) after a cycle that did not raise
FULL_INTERVAL == 300
\* app.py line 145: await asyncio.sleep(60) in the exception handler
BACKOFF_INTERVAL == 60
\* twitter_scraper.py line 69: cutoff_time = current_time - (24 * 60 * 60)
RETENTION == 86400

\* get_tracked_tokens: the list the scheduler tracks
TrackedTokens ==
  << "ethereum", "bitcoin", "binance", "dogecoin", "cardano",
     "solana", "ripple", "polkadot", "avalanche", "chainlink" >>

get_tracked_tokens == SubSeq(TrackedTokens, 1, NumTokens)

TokenSet == { get_tracked_tokens[i] : i \in 1..Len(get_tracked_tokens) }

\* the nine look-back windows of _calculate_growth_metrics, in seconds
Intervals ==
  [ change_5m  |-> 5 * 60,       change_15m |-> 15 * 60,
    change_30m |-> 30 * 60,      change_1h  |-> 60 * 60,
    change_4h  |-> 4 * 60 * 60,  change_6h  |-> 6 * 60 * 60,
    change_12h |-> 12 * 60 * 60, change_18h |-> 18 * 60 * 60,
    change_24h |-> 24 * 60 * 60 ]

(* ----------------------------- helpers -------------------------------- *)

None == << >>
Some(x) == << x >>

\* dict.get(key, default)
DictGet(d, k, default) == IF k \in DOMAIN d THEN d[k] ELSE default

\* the float 0 / the int 0 used as a percentage
Zero == << 0, 1 >>

\* comparisons of a fraction with an integer threshold, and of two fractions
FracGe(p, k) == p[1] >= k * p[2]
FracGt(p, k) == p[1] > k * p[2]
FracLt(p, k) == p[1] < k * p[2]
FracEq(p, q) == p[1] * q[2] = q[1] * p[2]

RECURSIVE GCD(_, _)
GCD(a, b) == IF b = 0 THEN a ELSE GCD(b, a % b)

Max(a, b) == IF a >= b THEN a ELSE b
Min(a, b) == IF a <= b THEN a ELSE b

\* nearest integer to a / b, for a >= 0 and b > 0
RoundDiv(a, b) == (2 * a + b) \div (2 * b)

(* --------------------- app.py: the pure functions --------------------- *)

\* math.log10 of the follower counts the model draws, in thousandths
Log10Milli(f) ==
  CASE f = 1    -> 0
    [] f = 5    -> 699
    [] f = 10   -> 1000
    [] f = 100  -> 2000
    [] f = 105  -> 2021
    [] f = 110  -> 2041
    [] f = 150  -> 2176
    [] f = 1000 -> 3000
    [] f = 1000000  -> 6000
    [] f = 10000000 -> 7000

\* growth_multiplier of calculate_twitter_score as a fraction in lowest terms:
\* clamp(1 + max(g1h, 0) / 100 + max(g24h, 0) / 200, 1.0, 2.0)
GrowthMultiplier(growth_1h, growth_24h) ==
  LET n1 == Max(growth_1h[1], 0)
      d1 == growth_1h[2]
      n2 == Max(growth_24h[1], 0)
      d2 == growth_24h[2]
      num == 200 * d1 * d2 + 2 * n1 * d2 + n2 * d1
      den == 200 * d1 * d2
      g == GCD(num, den)
  IN  IF num > 2 * den THEN << 2, 1 >>
      ELSE IF num < den THEN << 1, 1 >>
      ELSE << num \div g, den \div g >>

\* a score whose log guard takes the magnitude of followers
TwitterScoreOfMagnitude(followers, engagement_rate, growth_1h, growth_24h, verified) ==
  LET magnitude == IF followers < 0 THEN 0 - followers ELSE followers
      base_milli == Log10Milli(Max(magnitude, 1)) * 10
      engagement_milli == Max(500, Min(1500, 1000 + engagement_rate))
      gm == GrowthMultiplier(growth_1h, growth_24h)
      verified_tenths == IF verified THEN 12 ELSE 10
  IN  RoundDiv(base_milli * engagement_milli * gm[1] * verified_tenths,
               1000000 * gm[2])

\* calculate_twitter_score; engagement_rate is in units of 1e-5, the result
\* (a float rounded to one decimal) is in tenths
calculate_twitter_score(followers, engagement_rate, growth_1h, growth_24h, verified) ==
  LET base_milli == Log10Milli(Max(followers, 1)) * 10
      engagement_milli == Max(500, Min(1500, 1000 + engagement_rate))
      gm == GrowthMultiplier(growth_1h, growth_24h)
      verified_tenths == IF verified THEN 12 ELSE 10
  IN  RoundDiv(base_milli * engagement_milli * gm[1] * verified_tenths,
               1000000 * gm[2])

\* a classification that looks at the one-hour change before the short windows
GrowthStatusHourFirst(growth_metrics) ==
  LET growth_5m  == DictGet(growth_metrics, "change_5m", Zero)
      growth_15m == DictGet(growth_metrics, "change_15m", Zero)
      growth_30m == DictGet(growth_metrics, "change_30m", Zero)
      growth_1h  == DictGet(growth_metrics, "change_1h", Zero)
  IN  IF FracGe(growth_1h, 10) THEN "Spiking"
      ELSE IF FracGe(growth_1h, 5) THEN "Fast Growth"
      ELSE IF FracGt(growth_1h, 0) THEN "Growing"
      ELSE IF FracLt(growth_1h, 0) THEN "Declining"
      ELSE IF FracGe(growth_5m, 2) \/ FracGe(growth_15m, 5) \/ FracGe(growth_30m, 8)
           THEN "Spiking"
      ELSE "Stable"

\* determine_growth_status: ordered threshold checks, first match wins
determine_growth_status(growth_metrics) ==
  LET growth_5m  == DictGet(growth_metrics, "change_5m", Zero)
      growth_15m == DictGet(growth_metrics, "change_15m", Zero)
      growth_30m == DictGet(growth_metrics, "change_30m", Zero)
      growth_1h  == DictGet(growth_metrics, "change_1h", Zero)
  IN  IF FracGe(growth_5m, 2) \/ FracGe(growth_15m, 5)
         \/ FracGe(growth_30m, 8) \/ FracGe(growth_1h, 10)
      THEN "Spiking"
      ELSE IF FracGe(growth_1h, 5) THEN "Fast Growth"
      ELSE IF FracGt(growth_1h, 0) THEN "Growing"
      ELSE IF FracLt(growth_1h, 0) THEN "Declining"
      ELSE "Stable"

\* one entry of process_leaderboard_data's loop body
LeaderboardEntry(username, data, market_data) ==
  LET market_info == DictGet(market_data, username, << >>)
      growth_metrics == DictGet(data, "growth_metrics", << >>)
  IN  [ username         |-> username,
        verified         |-> DictGet(data, "verified", FALSE),
        followers_count  |-> DictGet(data, "followers_count", 0),
        market_cap       |-> DictGet(market_info, "market_cap", 0),
        price            |-> DictGet(market_info, "price", 0),
        price_change_24h |-> DictGet(market_info, "price_change_24h", 0),
        growth_5m        |-> DictGet(growth_metrics, "change_5m", Zero),
        growth_15m       |-> DictGet(growth_metrics, "change_15m", Zero),
        growth_30m       |-> DictGet(growth_metrics, "change_30m", Zero),
        growth_1h        |-> DictGet(growth_metrics, "change_1h", Zero),
        growth_4h        |-> DictGet(growth_metrics, "change_4h", Zero),
        growth_6h        |-> DictGet(growth_metrics, "change_6h", Zero),
        growth_12h       |-> DictGet(growth_metrics, "change_12h", Zero),
        growth_18h       |-> DictGet(growth_metrics, "change_18h", Zero),
        growth_24h       |-> DictGet(growth_metrics, "change_24h", Zero),
        growth_status    |-> determine_growth_status(growth_metrics),
        engagement_rate  |-> DictGet(data, "engagement_rate", 0),
        twitter_score    |-> calculate_twitter_score(
                               DictGet(data, "followers_count", 0),
                               DictGet(data, "engagement_rate", 0),
                               DictGet(growth_metrics, "change_1h", Zero),
                               DictGet(growth_metrics, "change_24h", Zero),
                               DictGet(data, "verified", FALSE)) ]

\* list.sort(key = twitter_score, reverse = True): stable, descending
RECURSIVE InsertByScore(_, _)
InsertByScore(sorted, e) ==
  IF sorted = << >> THEN << e >>
  ELSE IF Head(sorted).twitter_score >= e.twitter_score
       THEN << Head(sorted) >> \o InsertByScore(Tail(sorted), e)
       ELSE << e >> \o sorted

RECURSIVE SortByScore(_)
SortByScore(s) ==
  IF s = << >> THEN << >>
  ELSE InsertByScore(SortByScore(SubSeq(s, 1, Len(s) - 1)), s[Len(s)])

\* a merge that returns the entries in the order of twitter_data
ProcessLeaderboardUnsorted(twitter_data, market_data) ==
  [ i \in 1..Len(twitter_data) |->
      LeaderboardEntry(twitter_data[i].username, twitter_data[i], market_data) ]

\* process_leaderboard_data: twitter_data is the dict in insertion order, a
\* sequence of the scraped records (each carries its username key)
process_leaderboard_data(twitter_data, market_data) ==
  SortByScore([ i \in 1..Len(twitter_data) |->
                  LeaderboardEntry(twitter_data[i].username, twitter_data[i],
                                   market_data) ])

(* ------------- twitter_scraper.py: the follower history --------------- *)

\* history.sort(key = timestamp): stable, ascending
RECURSIVE InsertByTimestamp(_, _)
InsertByTimestamp(sorted, p) ==
  IF sorted = << >> THEN << p >>
  ELSE IF Head(sorted).timestamp <= p.timestamp
       THEN << Head(sorted) >> \o InsertByTimestamp(Tail(sorted), p)
       ELSE << p >> \o sorted

RECURSIVE SortByTimestamp(_)
SortByTimestamp(s) ==
  IF s = << >> THEN << >>
  ELSE InsertByTimestamp(SortByTimestamp(SubSeq(s, 1, Len(s) - 1)), s[Len(s)])

\* a retention filter that keeps the point lying exactly on the cutoff
KeepRecentInclusive(history, cutoff_time) ==
  LET Recent(point) == point.timestamp >= cutoff_time
  IN  SelectSeq(history, Recent)

\* the point list comprehension of save_follower_data: the retention filter
KeepRecent(history, cutoff_time) ==
  LET Recent(point) == point.timestamp > cutoff_time
  IN  SelectSeq(history, Recent)

\* a save that appends and sorts but drops no point
SaveWithoutRetention(history, current_time, followers_count) ==
  SortByTimestamp(Append(history, [ timestamp |-> current_time,
                                    followers |-> followers_count ]))

\* save_follower_data: the history it writes back to <username>_history.json
save_follower_data(history, current_time, followers_count) ==
  LET appended == Append(history, [ timestamp |-> current_time,
                                    followers |-> followers_count ])
      cutoff_time == current_time - RETENTION
  IN  SortByTimestamp(KeepRecent(appended, cutoff_time))

\* a reference search that passes over a point lying exactly on the cutoff
IntervalPointStrict(history, interval_time) ==
  LET hits == { i \in 1..Len(history) : history[i].timestamp < interval_time }
  IN  IF hits = {} THEN 0 ELSE CHOOSE i \in hits : \A j \in hits : j <= i

\* the inner loop of _calculate_growth_metrics: walking the history backwards,
\* the first point with timestamp <= interval_time (0 when there is none)
IntervalPoint(history, interval_time) ==
  LET hits == { i \in 1..Len(history) : history[i].timestamp <= interval_time }
  IN  IF hits = {} THEN 0 ELSE CHOOSE i \in hits : \A j \in hits : j <= i

\* growth metrics without the guard against a reference with 0 followers
GrowthMetricsNoZeroGuard(history, current_time) ==
  IF history = << >> THEN [ name \in DOMAIN Intervals |-> Zero ]
  ELSE [ name \in DOMAIN Intervals |->
           LET i == IntervalPoint(history, current_time - Intervals[name])
           IN  IF i = 0 THEN Zero
               ELSE << (history[Len(history)].followers - history[i].followers) * 100,
                       Max(history[i].followers, 1) >> ]

\* _calculate_growth_metrics: the nine percentage changes
calculate_growth_metrics(history, current_time) ==
  IF history = << >> THEN [ name \in DOMAIN Intervals |-> Zero ]
  ELSE LET current_followers == history[Len(history)].followers
       IN  [ name \in DOMAIN Intervals |->
               LET i == IntervalPoint(history, current_time - Intervals[name])
               IN  IF i = 0 THEN Zero
                   ELSE IF history[i].followers > 0
                        THEN << (current_followers - history[i].followers) * 100,
                                history[i].followers >>
                        ELSE Zero ]

\* the all-zero dict _calculate_follower_growth returns when there is nothing
\* to compute from: the nine changes and growth_rate
ZeroGrowth == [ name \in DOMAIN Intervals \cup { "growth_rate" } |-> Zero ]

\* _calculate_follower_growth on data/<username>_history.json, which is absent
\* (None) or holds a list (Some(history)): the nine changes and growth_rate
calculate_follower_growth(file, current_time) ==
  IF file = None THEN ZeroGrowth
  ELSE IF file[1] = << >> THEN ZeroGrowth
  ELSE LET data_points == SortByTimestamp(file[1])
           growth_metrics == calculate_growth_metrics(data_points, current_time)
           growth_rate == IF growth_metrics["change_1h"][1] # 0
                          THEN growth_metrics["change_1h"]
                          ELSE Zero
       IN  [ name \in DOMAIN Intervals \cup { "growth_rate" } |->
               IF name = "growth_rate" THEN growth_rate ELSE growth_metrics[name] ]

\* self.SPIKE_THRESHOLD_PERCENT, twitter_scraper.py line 44
SPIKE_THRESHOLD_PERCENT == 5
\* the look-back of detect_follower_spike in seconds, twitter_scraper.py line 204
SPIKE_LOOKBACK == 3600

\* a scan that stops at the first point at or before hour_ago
OldPointOldest(data_points, hour_ago, old_point) ==
  LET AtOrBefore(point) == point.timestamp <= hour_ago
      hits == SelectSeq(data_points, AtOrBefore)
  IN  IF hits = << >> THEN old_point ELSE Some(Head(hits))

\* the scan of detect_follower_spike over the sorted points: every point at or
\* before hour_ago replaces old_point, the first later point ends the scan
RECURSIVE OldPoint(_, _, _)
OldPoint(data_points, hour_ago, old_point) ==
  IF data_points = << >> THEN old_point
  ELSE IF Head(data_points).timestamp <= hour_ago
       THEN OldPoint(Tail(data_points), hour_ago, Some(Head(data_points)))
       ELSE old_point

\* a spike test whose threshold is exclusive
IsSpikeExclusive(percent_change) == FracGt(percent_change, SPIKE_THRESHOLD_PERCENT)

\* line 225: percent_change >= self.SPIKE_THRESHOLD_PERCENT
IsSpike(percent_change) == FracGe(percent_change, SPIKE_THRESHOLD_PERCENT)

\* detect_follower_spike: the pair (is_spike, percent_change)
detect_follower_spike(file, current_time, current_followers) ==
  IF file = None THEN << FALSE, Zero >>
  ELSE IF file[1] = << >> THEN << FALSE, Zero >>
  ELSE LET data_points == SortByTimestamp(file[1])
           hour_ago == current_time - SPIKE_LOOKBACK
           old_point == OldPoint(data_points, hour_ago, None)
       IN  IF old_point = None THEN << FALSE, Zero >>
           ELSE LET old_followers == old_point[1].followers
                IN  IF old_followers = 0 THEN << FALSE, Zero >>
                    ELSE LET percent_change ==
                               << (current_followers - old_followers) * 100,
                                  old_followers >>
                         IN  << IsSpike(percent_change), percent_change >>

(* ------------- twitter_scraper.py: the live path's pure parts --------- *)

\* a fraction in lowest terms
Reduce(p) == LET g == GCD(p[1], p[2]) IN << p[1] \div g, p[2] \div g >>

\* p < q for two fractions with positive denominators
FracLess(p, q) == p[1] * q[2] < q[1] * p[2]

\* a normalisation without the upper clamp
NormalizeUnclamped(score) == Max(0, score)

\* line 427: min(1000, max(0, int(score)))
Normalize(score) == Min(1000, Max(0, score))

\* TwitterScraper._calculate_twitter_score; engagement_rate is in units of
\* 1e-5, int() truncates the positive product
TwitterScraper_calculate_twitter_score(followers, engagement_rate, verified) ==
  IF followers <= 0 THEN 0
  ELSE LET follower_score_milli7 == 1000 + Log10Milli(followers)
           engagement_milli == Max(500, Min(2000, 1000 + engagement_rate))
           verification_tenths == IF verified THEN 12 ELSE 10
       IN  Normalize((follower_score_milli7 * engagement_milli
                        * verification_tenths) \div 70000)

\* lines 646-647: growth_metrics[key] / followers_count * 100
PctChange(change, followers_count) ==
  IF followers_count > 0
  THEN Reduce(<< change[1] * 100, change[2] * followers_count >>)
  ELSE Zero

\* lines 653-662: the growth_status of the live path
LiveGrowthStatus(is_spike, pct_change_24h) ==
  IF is_spike THEN "Spiking"
  ELSE IF FracGt(pct_change_24h, 1) THEN "Growing Fast"
  ELSE IF FracGt(pct_change_24h, 0) THEN "Growing"
  ELSE IF FracLt(pct_change_24h, -1) THEN "Declining"
  ELSE "Stable"

\* the sort key of lines 697-701 and Python's tuple order on it
SortKey(x) == << x.follower_metrics.is_spiking,
                 x.follower_metrics.pct_change_1h,
                 x.twitter_stats.twitter_score >>

\* an order that looks at twitter_score alone
KeyLessScoreOnly(k, l) == k[3] < l[3]

KeyLess(k, l) ==
  \/ ~k[1] /\ l[1]
  \/ k[1] = l[1] /\ FracLess(k[2], l[2])
  \/ k[1] = l[1] /\ FracEq(k[2], l[2]) /\ k[3] < l[3]

\* results.sort(key = ..., reverse = True): stable, descending
RECURSIVE InsertByKey(_, _)
InsertByKey(sorted, e) ==
  IF sorted = << >> THEN << e >>
  ELSE IF KeyLess(SortKey(Head(sorted)), SortKey(e))
       THEN << e >> \o sorted
       ELSE << Head(sorted) >> \o InsertByKey(Tail(sorted), e)

RECURSIVE SortByKey(_)
SortByKey(s) ==
  IF s = << >> THEN << >>
  ELSE InsertByKey(SortByKey(SubSeq(s, 1, Len(s) - 1)), s[Len(s)])

(* ------------------------------- state -------------------------------- *)

VARIABLES
  now,                 \* the clock, int(time.time()) / datetime.now()
  current_leaderboard, \* app.py global: [written_at, data]; written_at is the
                       \* clock value of the assignment, kept to tell cycles apart
  last_update,         \* app.py global: None or Some(timestamp)
  update_lock,         \* threading.Lock: "free" or the name of its holder
  leaderboard_json,    \* src/data/leaderboard.json: None, Some(document), or
                       \* Some(Truncated) after a write that failed half-way
  sched_pc,            \* where update_leaderboard stands
  cycle,               \* iterations of its while-loop started so far
  scraped,             \* what scrape_account_stats returned so far this cycle
  twitter_data,        \* local of get_twitter_data / update_leaderboard
  market_data,         \* local of update_leaderboard
  fault,               \* the exception the current cycle raised, or "none"
  sleep_arg,           \* the argument of the asyncio.sleep the loop is in
  req_pc,              \* where the serving thread stands in its request
  req_ts,              \* the last_update a request has read
  req_lb,              \* the current_leaderboard a request has read
  follower_history,    \* data/<username>_history.json, per username
  last_save,           \* the last save_follower_data call that wrote its file:
                       \* None, or Some of its username, its current_time and
                       \* how many points its retention filter dropped
  live_run,            \* calls of generate_leaderboard started so far
  live_pc,             \* generate_leaderboard: "idle", "gather" or "returned",
                       \* and "closed" once main() has closed the scraper
  tasks,               \* the scrape_token coroutines of the call, by token
  alerts,              \* local `alerts` of generate_leaderboard
  live_results,        \* what the call returned: None or Some(results)
  live_before,         \* the history files as the call found them
  call,                \* the function last evaluated and its arguments
  result,              \* what that evaluation returned
  db_users,            \* table users: usernames, the id is the position
  db_metrics,          \* table metrics: rows in insertion (id) order
  db_result,           \* what get_latest_leaderboard returned, if it was
                       \* called since the last write to the database
  db_profiles,         \* table users: the descriptive columns of each row
  db_engagement,       \* table engagement_details: rows in insertion order
  db_call,             \* the last call of the other database functions:
                       \* its arguments, what it returned, the tables before
  db_imported,         \* the data directories imported so far
  db_reader,           \* a get_latest_leaderboard call in progress: None,
                       \* or its rows still to complete and its entries
  scraper_open         \* the browser resources the scraper holds open

\* what TwitterScraper.create() opens, in the order close() closes it
Resources == << "page", "context", "browser", "playwright" >>

\* the resources still open once the first k have been closed
OpenAfter(k) == { Resources[i] : i \in k + 1..Len(Resources) }

pubVars   == << current_leaderboard, last_update >>
schedVars == << sched_pc, cycle, scraped, twitter_data, market_data, fault, sleep_arg >>
reqVars   == << req_pc, req_ts, req_lb >>
histVars  == << follower_history, last_save >>
liveVars  == << live_pc, live_run, tasks, alerts, live_results, live_before >>
evalVars  == << call, result >>
dbVars    == << db_users, db_metrics, db_result, db_profiles, db_engagement,
               db_call, db_imported, db_reader >>
vars == << now, current_leaderboard, last_update, update_lock, leaderboard_json,
           sched_pc, cycle, scraped, twitter_data, market_data, fault, sleep_arg,
           req_pc, req_ts, req_lb, follower_history, last_save,
           live_pc, live_run, tasks, alerts, live_results, live_before,
           call, result, db_users, db_metrics, db_result, db_profiles,
           db_engagement, db_call, db_imported, db_reader, scraper_open >>

(* ------------------------------ inputs -------------------------------- *)

\* follower counts a profile fetch may report
ScrapedFollowers == { 1000 }

\* what scrape_account_stats returns for a username: None on any failure, or
\* the result dict (it has no 'growth_metrics' key)
ScrapeResults(username) ==
  { None } \cup
  { Some([ username        |-> username,
           followers_count |-> f,
           verified        |-> FALSE,
           engagement_rate |-> 0 ]) : f \in ScrapedFollowers }

ZeroQuote == [ price |-> 0, price_change_24h |-> 0, market_cap |-> 0 ]
LiveQuote == [ price |-> 2, price_change_24h |-> 5, market_cap |-> 6 ]

\* what get_market_data returns: a record for every token, all-zero for a token
\* without a symbol, with a failed request, or (all of them) after an exception
MarketResults(tokens) ==
  { [ t \in { tokens[i] : i \in 1..Len(tokens) } |-> q ] : q \in { ZeroQuote, LiveQuote } }

(* -------------------------------- Init -------------------------------- *)

Init ==
  /\ now = 0
  /\ current_leaderboard = [ written_at |-> None, data |-> << >> ]
  /\ last_update = None
  /\ update_lock = "free"
  /\ leaderboard_json = None
  /\ sched_pc = "get_tracked_tokens"
  /\ cycle = 0
  /\ scraped = << >>
  /\ twitter_data = << >>
  /\ market_data = << >>
  /\ fault = "none"
  /\ sleep_arg = 0
  /\ req_pc = "idle"
  /\ req_ts = None
  /\ req_lb = None
  /\ follower_history = [ t \in TokenSet |-> << >> ]
  /\ last_save = None
  /\ live_pc = "idle"
  /\ live_run = 0
  /\ tasks = << >>
  /\ alerts = << >>
  /\ live_results = None
  /\ live_before = follower_history
  /\ call = None
  /\ result = None
  /\ db_users = << >>
  /\ db_metrics = << >>
  /\ db_result = None
  /\ db_profiles = << >>
  /\ db_engagement = << >>
  /\ db_call = None
  /\ db_imported = {}
  /\ db_reader = None
  /\ scraper_open = OpenAfter(0)

(* ------------------- app.py: update_leaderboard ----------------------- *)

\* a `with` block that keeps the lock when it is left
ReleasedLockKept(holder) == update_lock

\* `with update_lock` left by an exception or by its end
ReleasedLock(holder) == IF update_lock = holder THEN "free" ELSE update_lock

\* a handler placed outside the while-loop: the exception ends the coroutine
ExceptHandlerEndsLoop(kind) ==
  /\ fault' = kind
  /\ sleep_arg' = BACKOFF_INTERVAL
  /\ sched_pc' = "stopped"
  /\ update_lock' = ReleasedLock("scheduler")

\* a handler that sleeps the full interval after a failed cycle
ExceptHandlerFullSleep(kind) ==
  /\ fault' = kind
  /\ sleep_arg' = FULL_INTERVAL
  /\ sched_pc' = "sleeping"
  /\ update_lock' = ReleasedLock("scheduler")

\* lines 143-145: `except Exception` logs and sleeps the backoff interval
ExceptHandler(kind) ==
  /\ fault' = kind
  /\ sleep_arg' = BACKOFF_INTERVAL
  /\ sched_pc' = "sleeping"
  /\ update_lock' = ReleasedLock("scheduler")

\* line 117: tokens = await scraper.get_tracked_tokens(), top of the loop body
GetTrackedTokens ==
  /\ sched_pc = "get_tracked_tokens"
  /\ cycle < MaxCycles
  /\ cycle' = cycle + 1
  /\ scraped' = << >>
  /\ twitter_data' = << >>
  /\ market_data' = << >>
  /\ fault' = "none"
  /\ sched_pc' = "get_twitter_data"
  /\ UNCHANGED << now, pubVars, update_lock, leaderboard_json, sleep_arg,
                  reqVars, histVars,
                  liveVars, evalVars, dbVars, scraper_open >>

\* a get_twitter_data that gives up on the first failed profile fetch
AddStatsAbortOnFailure(data, stats) ==
  IF stats # None THEN Append(data, stats[1]) ELSE << >>

\* get_twitter_data lines 852-854: `if stats: twitter_data[username] = stats`
AddStats(data, stats) ==
  IF stats # None THEN Append(data, stats[1]) ELSE data

\* one iteration of get_twitter_data's loop: scrape the next username
ScrapeAccountStats ==
  /\ sched_pc = "get_twitter_data"
  /\ Len(scraped) < Len(get_tracked_tokens)
  /\ \E stats \in ScrapeResults(get_tracked_tokens[Len(scraped) + 1]) :
       /\ scraped' = Append(scraped, stats)
       /\ twitter_data' = AddStats(twitter_data, stats)
  /\ UNCHANGED << now, pubVars, update_lock, leaderboard_json, sched_pc, cycle,
                  market_data, fault, sleep_arg, reqVars, histVars,
                  liveVars, evalVars, dbVars, scraper_open >>

\* get_twitter_data lines 856-858: an exception outside scrape_account_stats
\* is logged and {} returned
GetTwitterDataError ==
  /\ sched_pc = "get_twitter_data"
  /\ Len(scraped) < Len(get_tracked_tokens)
  /\ twitter_data' = << >>
  /\ sched_pc' = "get_market_data"
  /\ UNCHANGED << now, pubVars, update_lock, leaderboard_json, cycle, scraped,
                  market_data, fault, sleep_arg, reqVars, histVars,
                  liveVars, evalVars, dbVars, scraper_open >>

\* get_twitter_data line 855: return twitter_data
GetTwitterDataReturn ==
  /\ sched_pc = "get_twitter_data"
  /\ Len(scraped) = Len(get_tracked_tokens)
  /\ sched_pc' = "get_market_data"
  /\ UNCHANGED << now, pubVars, update_lock, leaderboard_json, cycle, scraped,
                  twitter_data, market_data, fault, sleep_arg, reqVars,
                  histVars,
                  liveVars, evalVars, dbVars, scraper_open >>

\* a guard that publishes as soon as either source returned something
ShouldPublishEither(tdata, mdata) == tdata # << >> \/ DOMAIN mdata # {}

\* line 126: `if twitter_data and market_data`
ShouldPublish(tdata, mdata) == tdata # << >> /\ DOMAIN mdata # {}

\* lines 123-126 and 141: fetch the market data, then either go for the lock or
\* skip to the full sleep
GetMarketData ==
  /\ sched_pc = "get_market_data"
  /\ \E m \in MarketResults(get_tracked_tokens) :
       /\ market_data' = m
       /\ IF ShouldPublish(twitter_data, m)
          THEN sched_pc' = "acquire_lock" /\ UNCHANGED sleep_arg
          ELSE sched_pc' = "sleeping" /\ sleep_arg' = FULL_INTERVAL
  /\ UNCHANGED << now, pubVars, update_lock, leaderboard_json, cycle, scraped,
                  twitter_data, fault, reqVars, histVars,
                  liveVars, evalVars, dbVars, scraper_open >>

\* an adapter call of lines 117-123 raises: caught at line 143
CollectFault ==
  /\ sched_pc \in { "get_twitter_data", "get_market_data" }
  /\ ExceptHandler("collect")
  /\ UNCHANGED << now, pubVars, leaderboard_json, cycle, scraped, twitter_data,
                  market_data, reqVars, histVars,
                  liveVars, evalVars, dbVars, scraper_open >>

\* line 127: `with update_lock`, blocking until the lock is free
AcquireLock ==
  /\ sched_pc = "acquire_lock"
  /\ update_lock = "free"
  /\ update_lock' = "scheduler"
  /\ sched_pc' = "merge"
  /\ UNCHANGED << now, pubVars, leaderboard_json, cycle, scraped, twitter_data,
                  market_data, fault, sleep_arg, reqVars, histVars,
                  liveVars, evalVars, dbVars, scraper_open >>

\* line 128: current_leaderboard = process_leaderboard_data(...)
Merge ==
  /\ sched_pc = "merge"
  /\ current_leaderboard' =
       [ written_at |-> Some(now),
         data |-> process_leaderboard_data(twitter_data, market_data) ]
  /\ sched_pc' = "stamp"
  /\ UNCHANGED << now, last_update, update_lock, leaderboard_json, cycle, scraped,
                  twitter_data, market_data, fault, sleep_arg, reqVars,
                  histVars,
                  liveVars, evalVars, dbVars, scraper_open >>

\* a merge that raises after the timestamp was already assigned
MergeFaultAfterStamp ==
  /\ sched_pc = "merge"
  /\ last_update' = Some(now)
  /\ ExceptHandler("merge")
  /\ UNCHANGED << now, current_leaderboard, leaderboard_json, cycle, scraped,
                  twitter_data, market_data, reqVars, histVars,
                  liveVars, evalVars, dbVars, scraper_open >>

\* line 128: process_leaderboard_data raises, nothing is assigned
MergeFault ==
  /\ sched_pc = "merge"
  /\ ExceptHandler("merge")
  /\ UNCHANGED << now, pubVars, leaderboard_json, cycle, scraped, twitter_data,
                  market_data, reqVars, histVars,
                  liveVars, evalVars, dbVars, scraper_open >>

\* line 129: last_update = datetime.now().strftime(...), to the second
Stamp ==
  /\ sched_pc = "stamp"
  /\ last_update' = Some(now)
  /\ sched_pc' = "persist"
  /\ UNCHANGED << now, current_leaderboard, update_lock, leaderboard_json, cycle,
                  scraped, twitter_data, market_data, fault, sleep_arg, reqVars,
                  histVars,
                  liveVars, evalVars, dbVars, scraper_open >>

\* lines 132-141: the file is written, the lock released, the full sleep begun
Persist ==
  /\ sched_pc = "persist"
  /\ leaderboard_json' = Some([ timestamp |-> last_update[1],
                                data |-> current_leaderboard.data ])
  /\ update_lock' = ReleasedLock("scheduler")
  /\ sleep_arg' = FULL_INTERVAL
  /\ sched_pc' = "sleeping"
  /\ UNCHANGED << now, pubVars, cycle, scraped, twitter_data, market_data, fault,
                  reqVars, histVars,
                  liveVars, evalVars, dbVars, scraper_open >>

\* leaderboard.json cut short: what is left of it is no JSON document
Truncated == [ truncated |-> TRUE ]

\* lines 132-138 raise: makedirs or open fails and the file is as it was, or
\* json.dump fails after open(..., 'w') truncated it
PersistFault ==
  /\ sched_pc = "persist"
  /\ \E truncated \in BOOLEAN :
       leaderboard_json' = IF truncated THEN Some(Truncated) ELSE leaderboard_json
  /\ ExceptHandler("persist")
  /\ UNCHANGED << now, pubVars, cycle, scraped, twitter_data, market_data,
                  reqVars, histVars,
                  liveVars, evalVars, dbVars, scraper_open >>

\* lines 141 / 145: asyncio.sleep returns and the loop goes round
Wake ==
  /\ sched_pc = "sleeping"
  /\ now' = now + sleep_arg
  /\ sched_pc' = "get_tracked_tokens"
  /\ UNCHANGED << pubVars, update_lock, leaderboard_json, cycle, scraped,
                  twitter_data, market_data, fault, sleep_arg, reqVars,
                  histVars,
                  liveVars, evalVars, dbVars, scraper_open >>

\* lines 147-148: the task is cancelled at one of its awaits; CancelledError is
\* not an Exception, so only the outer handler takes it and the coroutine ends
Cancel ==
  /\ sched_pc \in { "get_twitter_data", "get_market_data", "sleeping" }
  /\ sched_pc' = "stopped"
  /\ UNCHANGED << now, pubVars, update_lock, leaderboard_json, cycle, scraped,
                  twitter_data, market_data, fault, sleep_arg, reqVars,
                  histVars,
                  liveVars, evalVars, dbVars, scraper_open >>

\* run_async_update, lines 258-267: once update_leaderboard has ended, the
\* finally block gathers the pending tasks and closes the event loop; the
\* thread ends, and nothing here or in update_leaderboard calls scraper.close()
RunAsyncUpdateFinally ==
  /\ sched_pc = "stopped"
  /\ sched_pc' = "finished"
  /\ UNCHANGED << now, pubVars, update_lock, leaderboard_json, cycle, scraped,
                  twitter_data, market_data, fault, sleep_arg, reqVars,
                  histVars, liveVars, evalVars, dbVars, scraper_open >>

Scheduler ==
  \/ GetTrackedTokens
  \/ ScrapeAccountStats
  \/ GetTwitterDataError
  \/ GetTwitterDataReturn
  \/ GetMarketData
  \/ CollectFault
  \/ AcquireLock
  \/ Merge
  \/ MergeFault
  \/ Stamp
  \/ Persist
  \/ PersistFault
  \/ Wake
  \/ Cancel
  \/ RunAsyncUpdateFinally

(* --------------------- app.py: the serving routes --------------------- *)

\* GET /api/leaderboard arrives
ApiRequest ==
  /\ req_pc = "idle"
  /\ req_pc' = "api_timestamp"
  /\ UNCHANGED << now, pubVars, update_lock, leaderboard_json, schedVars,
                  req_ts, req_lb, histVars,
                  liveVars, evalVars, dbVars, scraper_open >>

\* line 315: 'timestamp': last_update, read without the lock
ApiReadTimestamp ==
  /\ req_pc = "api_timestamp"
  /\ req_ts' = last_update
  /\ req_pc' = "api_data"
  /\ UNCHANGED << now, pubVars, update_lock, leaderboard_json, schedVars,
                  req_lb, histVars,
                  liveVars, evalVars, dbVars, scraper_open >>

\* line 316: 'data': current_leaderboard, read without the lock
ApiReadData ==
  /\ req_pc = "api_data"
  /\ req_lb' = current_leaderboard
  /\ req_pc' = "api_respond"
  /\ UNCHANGED << now, pubVars, update_lock, leaderboard_json, schedVars,
                  req_ts, histVars,
                  liveVars, evalVars, dbVars, scraper_open >>

\* GET / arrives
IndexRequest ==
  /\ req_pc = "idle"
  /\ req_pc' = "index_lock"
  /\ UNCHANGED << now, pubVars, update_lock, leaderboard_json, schedVars,
                  req_ts, req_lb, histVars,
                  liveVars, evalVars, dbVars, scraper_open >>

\* line 275: `with update_lock`
IndexAcquire ==
  /\ req_pc = "index_lock"
  /\ update_lock = "free"
  /\ update_lock' = "index"
  /\ req_pc' = "index_data"
  /\ UNCHANGED << now, pubVars, leaderboard_json, schedVars, req_ts, req_lb,
                  histVars,
                  liveVars, evalVars, dbVars, scraper_open >>

\* lines 276-302: the entries of current_leaderboard are copied
IndexReadData ==
  /\ req_pc = "index_data"
  /\ req_lb' = current_leaderboard
  /\ req_pc' = "index_timestamp"
  /\ UNCHANGED << now, pubVars, update_lock, leaderboard_json, schedVars,
                  req_ts, histVars,
                  liveVars, evalVars, dbVars, scraper_open >>

\* lines 304-306: last_update is read, the page rendered and the lock left
IndexRender ==
  /\ req_pc = "index_timestamp"
  /\ req_ts' = last_update
  /\ update_lock' = ReleasedLock("index")
  /\ req_pc' = "index_respond"
  /\ UNCHANGED << now, pubVars, leaderboard_json, schedVars, req_lb,
                  histVars,
                  liveVars, evalVars, dbVars, scraper_open >>

\* lines 307-309: an exception inside the `with` releases the lock; 500 is sent
IndexFault ==
  /\ req_pc \in { "index_data", "index_timestamp" }
  /\ update_lock' = ReleasedLock("index")
  /\ req_ts' = None
  /\ req_lb' = None
  /\ req_pc' = "idle"
  /\ UNCHANGED << now, pubVars, leaderboard_json, schedVars, histVars,
                  liveVars, evalVars, dbVars, scraper_open >>

\* the response has gone out
Respond ==
  /\ req_pc \in { "api_respond", "index_respond" }
  /\ req_ts' = None
  /\ req_lb' = None
  /\ req_pc' = "idle"
  /\ UNCHANGED << now, pubVars, update_lock, leaderboard_json, schedVars,
                  histVars,
                  liveVars, evalVars, dbVars, scraper_open >>

Serving ==
  \/ ApiRequest
  \/ ApiReadTimestamp
  \/ ApiReadData
  \/ IndexRequest
  \/ IndexAcquire
  \/ IndexReadData
  \/ IndexRender
  \/ IndexFault
  \/ Respond

(* ------------- twitter_scraper.py: the history store ------------------ *)

\* follower counts the live path may store
FollowerCounts == { 100, 150 }

RECURSIVE TotalPoints(_, _)
TotalPoints(h, names) ==
  IF names = {} THEN 0
  ELSE LET n == CHOOSE x \in names : TRUE
       IN  Len(h[n]) + TotalPoints(h, names \ { n })

\* generate_leaderboard.scrape_token line 633: save_follower_data(token, count)
\* at the current second.  (When it catches an exception it returns False and
\* the file is as it was: a step that changes nothing.)
SaveFollowerData ==
  /\ TotalPoints(follower_history, TokenSet) < MaxHist
  /\ \E username \in TokenSet, followers_count \in FollowerCounts :
       LET written == save_follower_data(follower_history[username], now,
                                         followers_count)
       IN  /\ follower_history' = [ follower_history EXCEPT ![username] = written ]
           /\ last_save' = Some([ username     |-> username,
                                  current_time |-> now,
                                  dropped      |-> Len(follower_history[username])
                                                     + 1 - Len(written) ])
  /\ UNCHANGED << now, pubVars, update_lock, leaderboard_json, schedVars, reqVars,
                  liveVars, evalVars, dbVars, scraper_open >>

\* time passes between two runs of the live path
TickSteps == { 43200, 86400 }

Tick ==
  /\ \E d \in TickSteps :
       /\ now + d <= MaxHalfDays * 43200
       /\ now' = now + d
  /\ UNCHANGED << pubVars, update_lock, leaderboard_json, schedVars, reqVars,
                  histVars,
                  liveVars, evalVars, dbVars, scraper_open >>

(* --------- twitter_scraper.py: generate_leaderboard, live path -------- *)

\* follower counts the page of a token may show: the first tracked account
\* is a small one whose count moves, the others are large and steady
LiveFollowers(token) ==
  IF token = TrackedTokens[1] THEN FollowerCounts ELSE ScrapedFollowers

\* what _scrape_account_stats_parallel returns for a token: None after an
\* exception, or the stats dict (engagement_rate is the fixed 0.001)
ParallelStats(token) ==
  { None } \cup
  { Some([ username        |-> token,
           followers_count |-> f,
           verified        |-> FALSE,
           engagement_rate |-> 100,
           twitter_score   |-> TwitterScraper_calculate_twitter_score(f, 100, FALSE) ])
      : f \in LiveFollowers(token) }

\* what get_market_data(token) returns to a task: one record for the token
LiveMarketResults(token) == MarketResults(<< token >>)

\* a store that keeps one file for all usernames
WriteHistoryShared(h, username, written) ==
  [ h EXCEPT ![CHOOSE t \in DOMAIN h : TRUE] = written ]

\* lines 51 and 75-76: the history goes to data/<username>_history.json
WriteHistory(h, username, written) == [ h EXCEPT ![username] = written ]

\* lines 609-691: generate_leaderboard creates one scrape_token coroutine per
\* token and gathers them; each starts by awaiting its page and its stats
LiveStart ==
  /\ live_pc \in { "idle", "returned" }
  /\ live_run < MaxRuns
  /\ live_run' = live_run + 1
  /\ live_pc' = "gather"
  /\ tasks' = [ i \in 1..Len(get_tracked_tokens) |->
                  [ token    |-> get_tracked_tokens[i],
                    pc       |-> "scrape",
                    appended |-> None,
                    out      |-> None ] ]
  /\ alerts' = << >>
  /\ live_results' = None
  /\ live_before' = follower_history
  /\ UNCHANGED << now, pubVars, update_lock, leaderboard_json, schedVars, reqVars,
                  histVars, evalVars, dbVars, scraper_open >>

\* lines 620-630: the page or the stats fail and the task returns None
TaskScrapeFails(i) ==
  /\ live_pc = "gather"
  /\ tasks[i].pc = "scrape"
  /\ tasks' = [ tasks EXCEPT ![i].pc = "done" ]
  /\ UNCHANGED << now, pubVars, update_lock, leaderboard_json, schedVars, reqVars,
                  histVars, live_pc, live_run, alerts, live_results, live_before,
                  evalVars, dbVars, scraper_open >>

\* lines 632-647: the stats arrive and the task runs, without an await in
\* between, save_follower_data, detect_follower_spike and
\* _calculate_follower_growth; then it awaits get_market_data
TaskScraped(i) ==
  /\ live_pc = "gather"
  /\ tasks[i].pc = "scrape"
  /\ TotalPoints(follower_history, TokenSet) < MaxHist
  /\ \E stats \in ParallelStats(tasks[i].token) \ { None } :
       LET token == tasks[i].token
           followers_count == stats[1].followers_count
           written == save_follower_data(follower_history[token], now,
                                         followers_count)
           saved == WriteHistory(follower_history, token, written)
           spike == detect_follower_spike(Some(saved[token]), now, followers_count)
           growth_metrics == calculate_follower_growth(Some(saved[token]), now)
       IN  /\ follower_history' = saved
           /\ last_save' = Some([ username     |-> token,
                                  current_time |-> now,
                                  dropped      |-> Len(follower_history[token])
                                                     + 1 - Len(written) ])
           /\ alerts' = IF spike[1] THEN Append(alerts, token) ELSE alerts
           /\ tasks' = [ tasks EXCEPT ![i] =
                [ token          |-> token,
                  pc             |-> "market",
                  appended       |-> Some([ timestamp |-> now,
                                            followers |-> followers_count ]),
                  out            |-> None,
                  stats          |-> stats[1],
                  is_spike       |-> spike[1],
                  growth_metrics |-> growth_metrics ] ]
  /\ UNCHANGED << now, pubVars, update_lock, leaderboard_json, schedVars, reqVars,
                  live_pc, live_run, live_results, live_before, evalVars, dbVars,
                  scraper_open >>

\* lines 650-686: get_market_data returns and the task builds its token_data
TaskMarket(i) ==
  /\ live_pc = "gather"
  /\ tasks[i].pc = "market"
  /\ \E market \in LiveMarketResults(tasks[i].token) :
       LET t == tasks[i]
           followers_count == t.stats.followers_count
           pct_change_1h == PctChange(t.growth_metrics["change_1h"], followers_count)
           pct_change_24h == PctChange(t.growth_metrics["change_24h"], followers_count)
           token_data ==
             [ token            |-> t.token,
               twitter_stats    |-> t.stats,
               market_data      |-> market,
               follower_metrics |->
                 [ total_followers |-> followers_count,
                   change_1h       |-> t.growth_metrics["change_1h"],
                   change_24h      |-> t.growth_metrics["change_24h"],
                   pct_change_1h   |-> pct_change_1h,
                   pct_change_24h  |-> pct_change_24h,
                   growth_rate     |-> t.growth_metrics["growth_rate"],
                   growth_status   |-> LiveGrowthStatus(t.is_spike, pct_change_24h),
                   hourly_rate     |-> t.growth_metrics["growth_rate"],
                   is_spiking      |-> t.is_spike ] ]
       IN  tasks' = [ tasks EXCEPT ![i] =
                        [ token    |-> t.token,
                          pc       |-> "done",
                          appended |-> t.appended,
                          out      |-> Some(token_data) ] ]
  /\ UNCHANGED << now, pubVars, update_lock, leaderboard_json, schedVars, reqVars,
                  histVars, live_pc, live_run, alerts, live_results, live_before,
                  evalVars, dbVars, scraper_open >>

\* lines 685 and 689-691: page.close() raises after the history was written;
\* the handler returns None
TaskCloseFails(i) ==
  /\ live_pc = "gather"
  /\ tasks[i].pc = "market"
  /\ tasks' = [ tasks EXCEPT ![i] =
                  [ token    |-> tasks[i].token,
                    pc       |-> "done",
                    appended |-> tasks[i].appended,
                    out      |-> None ] ]
  /\ UNCHANGED << now, pubVars, update_lock, leaderboard_json, schedVars, reqVars,
                  histVars, live_pc, live_run, alerts, live_results, live_before,
                  evalVars, dbVars, scraper_open >>

\* lines 694-704: gather returns in task order and the coroutines are gone;
\* the None results are dropped, the rest is sorted and returned
LiveReturn ==
  /\ live_pc = "gather"
  /\ \A i \in 1..Len(tasks) : tasks[i].pc = "done"
  /\ LET scraped_data == [ i \in 1..Len(tasks) |-> tasks[i].out ]
         IsData(data) == data # None
         results == [ i \in 1..Len(SelectSeq(scraped_data, IsData)) |->
                        SelectSeq(scraped_data, IsData)[i][1] ]
     IN  live_results' = Some(SortByKey(results))
  /\ live_pc' = "returned"
  /\ tasks' = << >>
  /\ UNCHANGED << now, pubVars, update_lock, leaderboard_json, schedVars, reqVars,
                  histVars, live_run, alerts, live_before, evalVars, dbVars,
                  scraper_open >>

LiveTask == \E i \in 1..Len(tasks) :
  TaskScrapeFails(i) \/ TaskScraped(i) \/ TaskMarket(i) \/ TaskCloseFails(i)

GenerateLeaderboard == LiveStart \/ LiveTask \/ LiveReturn

\* TwitterScraper.close(), called by main() after its last run (line 967):
\* the resources are closed in turn; a close that raises leaves the rest open
\* (line 903 re-raises, main() swallows it)
Close ==
  /\ live_pc = "returned"
  /\ live_run = MaxRuns
  /\ scraper_open = OpenAfter(0)
  /\ \E closed \in 0..Len(Resources) : scraper_open' = OpenAfter(closed)
  /\ live_pc' = "closed"
  /\ UNCHANGED << now, pubVars, update_lock, leaderboard_json, schedVars, reqVars,
                  histVars, live_run, tasks, alerts, live_results, live_before,
                  evalVars, dbVars >>

\* time passes between two calls of generate_leaderboard
LiveTick == live_pc = "returned" /\ Tick

(* ------------- the pure functions, applied to drawn inputs ------------- *)

\* how long before the evaluation a stored point was taken, in seconds: on the
\* clock tick, on a window's edge, either side of the one-hour edge, a day
PointAges == { 0, 300, 3599, 3600, 3601, 86400 }

\* follower counts of stored points
PointFollowers == { 0, 100, 150 }

\* follower counts a caller passes to detect_follower_spike
CurrentFollowers == { 0, 100, 104, 105 }

Points(current_time) ==
  { [ timestamp |-> current_time - a, followers |-> f ] :
      a \in { x \in PointAges : x <= current_time }, f \in PointFollowers }

\* the lists save_follower_data can have left in a history file: ordered by
\* timestamp, every point less than a day older than the last one
Histories(current_time) ==
  UNION { { h \in [ 1..n -> Points(current_time) ] :
              /\ \A i \in 1..n - 1 : h[i].timestamp <= h[i + 1].timestamp
              /\ \A i \in 1..n : h[i].timestamp > h[n].timestamp - RETENTION }
          : n \in 0..MaxHist }

\* data/<username>_history.json: absent, or holding one of these lists
HistoryFiles(current_time) ==
  { None } \cup { Some(h) : h \in Histories(current_time) }

\* _calculate_growth_metrics(username, history) at the current second
EvalGrowthMetrics ==
  /\ call = None
  /\ \E history \in Histories(now) :
       /\ call' = Some([ fn |-> "_calculate_growth_metrics",
                         history |-> history, current_time |-> now ])
       /\ result' = Some(calculate_growth_metrics(history, now))
  /\ UNCHANGED << now, pubVars, update_lock, leaderboard_json, schedVars, reqVars,
                  histVars, liveVars, dbVars, scraper_open >>

\* _calculate_follower_growth(username) at the current second
EvalFollowerGrowth ==
  /\ call = None
  /\ \E file \in HistoryFiles(now) :
       /\ call' = Some([ fn |-> "_calculate_follower_growth",
                         file |-> file, current_time |-> now ])
       /\ result' = Some(calculate_follower_growth(file, now))
  /\ UNCHANGED << now, pubVars, update_lock, leaderboard_json, schedVars, reqVars,
                  histVars, liveVars, dbVars, scraper_open >>

\* detect_follower_spike(username, current_followers) at the current second
EvalDetectSpike ==
  /\ call = None
  /\ \E file \in HistoryFiles(now), current_followers \in CurrentFollowers :
       /\ call' = Some([ fn |-> "detect_follower_spike", file |-> file,
                         current_time |-> now,
                         current_followers |-> current_followers ])
       /\ result' = Some(detect_follower_spike(file, now, current_followers))
  /\ UNCHANGED << now, pubVars, update_lock, leaderboard_json, schedVars, reqVars,
                  histVars, liveVars, dbVars, scraper_open >>

\* generate_leaderboard.scrape_token, lines 631-643, at the current second:
\* the count is appended to the file, then detect_follower_spike and
\* _calculate_follower_growth read the file back.  old_point is the local of
\* detect_follower_spike, interval_point the local of _calculate_growth_metrics
\* for change_1h.
EvalScrapeToken ==
  /\ call = None
  /\ \E file \in HistoryFiles(now), followers_count \in CurrentFollowers :
       LET history == save_follower_data(IF file = None THEN << >> ELSE file[1],
                                         now, followers_count)
           data_points == SortByTimestamp(history)
           i == IntervalPoint(data_points, now - Intervals["change_1h"])
       IN  /\ call' = Some([ fn |-> "scrape_token", file |-> file,
                             current_time |-> now,
                             followers_count |-> followers_count ])
           /\ result' = Some(
                [ history        |-> history,
                  spike          |-> detect_follower_spike(Some(history), now,
                                                           followers_count),
                  growth_metrics |-> calculate_follower_growth(Some(history), now),
                  old_point      |-> OldPoint(data_points, now - SPIKE_LOOKBACK, None),
                  interval_point |-> IF i = 0 THEN None ELSE Some(data_points[i]) ])
  /\ UNCHANGED << now, pubVars, update_lock, leaderboard_json, schedVars, reqVars,
                  histVars, liveVars, dbVars, scraper_open >>

\* the clock before the evaluation
EvalTick == call = None /\ Tick

(* ---------- the scoring and merging functions on drawn inputs --------- *)

\* growth percentages around the thresholds of determine_growth_status
Growth5m  == { Zero, << 19, 10 >>, << 2, 1 >>, << 3, 1 >> }
Growth15m == { Zero, << 49, 10 >>, << 5, 1 >> }
Growth30m == { Zero, << 79, 10 >>, << 8, 1 >> }
Growth1h  == { << -1, 1 >>, Zero, << 1, 10 >>, << 49, 10 >>, << 5, 1 >>,
               << 99, 10 >>, << 10, 1 >> }

\* the growth_metrics dicts: the empty dict and the dicts with the four keys
\* determine_growth_status reads
GrowthMetricsDicts ==
  { << >> } \cup
  { [ change_5m |-> a, change_15m |-> b, change_30m |-> c, change_1h |-> d ] :
      a \in Growth5m, b \in Growth15m, c \in Growth30m, d \in Growth1h }

\* determine_growth_status(growth_metrics)
EvalGrowthStatus ==
  /\ call = None
  /\ \E growth_metrics \in GrowthMetricsDicts :
       /\ call' = Some([ fn |-> "determine_growth_status",
                         growth_metrics |-> growth_metrics ])
       /\ result' = Some(determine_growth_status(growth_metrics))
  /\ UNCHANGED << now, pubVars, update_lock, leaderboard_json, schedVars, reqVars,
                  histVars, liveVars, dbVars, scraper_open >>

\* follower counts of the profile facts drawn
ProfileFollowers == { 10, 100, 1000 }

\* the twitter_data dicts: for some usernames, each once, in some insertion
\* order, the stats scrape_account_stats returned
TwitterDataDicts ==
  UNION { { d \in [ 1..n -> [ username : TokenSet,
                              followers_count : ProfileFollowers,
                              verified : BOOLEAN, engagement_rate : { 0 } ] ] :
              \A i, j \in 1..n : i # j => d[i].username # d[j].username }
          : n \in 0..NumTokens }

\* the market_data dicts: a quote for some of the usernames
MarketDataDicts ==
  UNION { [ D -> { ZeroQuote, LiveQuote } ] : D \in SUBSET TokenSet }

\* process_leaderboard_data(twitter_data, market_data)
EvalProcessLeaderboard ==
  /\ call = None
  /\ \E twitter \in TwitterDataDicts, market \in MarketDataDicts :
       /\ call' = Some([ fn |-> "process_leaderboard_data",
                         twitter_data |-> twitter, market_data |-> market ])
       /\ result' = Some(process_leaderboard_data(twitter, market))
  /\ UNCHANGED << now, pubVars, update_lock, leaderboard_json, schedVars, reqVars,
                  histVars, liveVars, dbVars, scraper_open >>

\* arguments of the two score functions
ScoreFollowers == { -5, 0, 1, 5, 10 }
ScraperFollowers == { -5, 0, 1, 5, 1000, 1000000, 10000000 }
EngagementRates == { -1000, 0, 100, 1000, 100000 }
ScoreGrowth1h == { << -10, 1 >>, Zero, << 50, 1 >> }
ScoreGrowth24h == { Zero, << 100, 1 >>, << 300, 1 >> }

\* app.py calculate_twitter_score(followers, engagement_rate, growth_1h,
\* growth_24h, verified)
EvalTwitterScore ==
  /\ call = None
  /\ \E followers \in ScoreFollowers, engagement_rate \in EngagementRates,
        growth_1h \in ScoreGrowth1h, growth_24h \in ScoreGrowth24h,
        verified \in BOOLEAN :
       /\ call' = Some([ fn |-> "calculate_twitter_score",
                         followers |-> followers,
                         engagement_rate |-> engagement_rate,
                         growth_1h |-> growth_1h, growth_24h |-> growth_24h,
                         verified |-> verified ])
       /\ result' = Some(calculate_twitter_score(followers, engagement_rate,
                                                 growth_1h, growth_24h, verified))
  /\ UNCHANGED << now, pubVars, update_lock, leaderboard_json, schedVars, reqVars,
                  histVars, liveVars, dbVars, scraper_open >>

\* TwitterScraper._calculate_twitter_score(followers, engagement_rate, verified)
EvalScraperScore ==
  /\ call = None
  /\ \E followers \in ScraperFollowers, engagement_rate \in EngagementRates,
        verified \in BOOLEAN :
       /\ call' = Some([ fn |-> "_calculate_twitter_score",
                         followers |-> followers,
                         engagement_rate |-> engagement_rate,
                         verified |-> verified ])
       /\ result' = Some(TwitterScraper_calculate_twitter_score(
                           followers, engagement_rate, verified))
  /\ UNCHANGED << now, pubVars, update_lock, leaderboard_json, schedVars, reqVars,
                  histVars, liveVars, dbVars, scraper_open >>

(* -------- twitter_scraper.py: scrape_account_stats, navigation -------- *)

\* line 435
max_retries == 3

\* what one pass of the loop body meets: the page loads and the profile
\* header appears, page.goto raises, or wait_for_selector raises
PassOutcomes == { "loaded", "goto_raises", "wait_raises" }

RECURSIVE NavigationLoop(_, _, _)
RECURSIVE NavigationHandler(_, _, _)

\* lines 458-463, `except Exception as e` around the loop body: it takes an
\* exception of page.goto and also one the inner handler raises
NavigationHandler(retry_count, outcomes, attempts) ==
  IF retry_count + 1 = max_retries
  THEN [ attempts |-> attempts, raised |-> TRUE ]
  ELSE NavigationLoop(retry_count + 1, outcomes, attempts)

\* lines 438-463: the passes of the while loop over the outcomes they meet,
\* giving the number of attempts made and whether an exception left the loop
NavigationLoop(retry_count, outcomes, attempts) ==
  IF ~(retry_count < max_retries)
  THEN [ attempts |-> attempts, raised |-> FALSE ]
  ELSE LET outcome == outcomes[attempts + 1]
       IN  IF outcome = "loaded"
           THEN [ attempts |-> attempts + 1, raised |-> FALSE ]
           ELSE IF outcome = "goto_raises"
           THEN NavigationHandler(retry_count, outcomes, attempts + 1)
           ELSE \* lines 451-456, `except Exception as wait_error`
                IF retry_count + 1 = max_retries
                THEN NavigationHandler(retry_count + 1, outcomes, attempts + 1)
                ELSE NavigationLoop(retry_count + 1, outcomes, attempts + 1)

\* scrape_account_stats up to line 465: the attempts made, and whether the
\* function returned None from the handler of lines 604-606 or went on to
\* collect the stats
scrape_account_stats(outcomes) ==
  LET navigation == NavigationLoop(0, outcomes, 0)
  IN  [ attempts |-> navigation.attempts,
        phase    |-> IF navigation.raised THEN "returned_none"
                     ELSE "stats_collection" ]

\* scrape_account_stats(username) over what its passes meet
EvalScrapeAccountStats ==
  /\ call = None
  /\ \E username \in TokenSet, outcomes \in [ 1..max_retries -> PassOutcomes ] :
       /\ call' = Some([ fn |-> "scrape_account_stats", username |-> username,
                         outcomes |-> outcomes ])
       /\ result' = Some(scrape_account_stats(outcomes))
  /\ UNCHANGED << now, pubVars, update_lock, leaderboard_json, schedVars, reqVars,
                  histVars, liveVars, dbVars, scraper_open >>

(* ------------------- database.py: the metrics store ------------------- *)

\* the four tables a connection works on; a users row is a username in
\* db_users and its descriptive columns in db_profiles, at the same position
Tables ==
  [ users      |-> db_users,
    profiles   |-> db_profiles,
    metrics    |-> db_metrics,
    engagement |-> db_engagement ]

\* the usernames the store is called with
StoreUsernames == { TrackedTokens[1], TrackedTokens[2] }

\* the id of a username in table users, 0 when it has no row
UserId(users, username) ==
  IF \E i \in 1..Len(users) : users[i] = username
  THEN CHOOSE i \in 1..Len(users) : users[i] = username
  ELSE 0

\* get_user_id(username): the user's row is created when it is missing, its
\* descriptive columns NULL (read back as not verified)
GetUserId ==
  /\ \E username \in StoreUsernames :
       /\ UserId(db_users, username) = 0
       /\ db_users' = Append(db_users, username)
       /\ db_profiles' = Append(db_profiles, FALSE)
  /\ db_result' = None
  /\ db_call' = None
  /\ UNCHANGED << now, pubVars, update_lock, leaderboard_json, schedVars, reqVars,
                  histVars, liveVars, evalVars, db_metrics, db_engagement,
                  db_imported, db_reader, scraper_open >>

\* a stats argument: `verified` stands for the descriptive fields (bio,
\* location, verified, created_at, all written by the same statement),
\* engagement_details is None when the key is missing, and `defect` names
\* what is wrong with the argument: "not_a_dict", or the field whose value
\* int() or float() rejects
Stats(username, followers_count, verified, engagement_details, defect) ==
  [ username           |-> username,
    followers_count    |-> followers_count,
    verified           |-> verified,
    engagement_details |-> engagement_details,
    defect             |-> defect ]

\* two scrapes of a subject, different in every field
Snapshots(username) ==
  { Stats(username, 100, FALSE, None, "none"),
    Stats(username, 150, TRUE, Some(5), "none") }

\* the arguments save_twitter_stats is called with
SaveInputs ==
  UNION { Snapshots(username) : username \in StoreUsernames }
    \cup { Stats(TrackedTokens[1], 100, TRUE, None, "not_a_dict"),
           Stats("", 100, TRUE, None, "none"),
           Stats(TrackedTokens[1], 100, TRUE, None, "followers_count"),
           Stats(TrackedTokens[1], 150, TRUE, Some(5), "engagement_details") }

\* an upsert that inserts a users row whether or not the username has one
UpsertUserInsertOnly(tables, stats) ==
  [ tables EXCEPT !.users = Append(@, stats.username),
                  !.profiles = Append(@, stats.verified) ]

\* lines 103-137: the users row is updated, or inserted when it is missing
UpsertUser(tables, stats) ==
  LET id == UserId(tables.users, stats.username)
  IN  IF id = 0
      THEN [ tables EXCEPT !.users = Append(@, stats.username),
                           !.profiles = Append(@, stats.verified) ]
      ELSE [ tables EXCEPT !.profiles[id] = stats.verified ]

\* lines 139-156: one row into metrics, stamped with the current second
InsertMetrics(tables, stats, timestamp) ==
  [ tables EXCEPT !.metrics =
      Append(@, [ id              |-> Len(tables.metrics) + 1,
                  user_id         |-> UserId(tables.users, stats.username),
                  timestamp       |-> timestamp,
                  followers_count |-> stats.followers_count,
                  twitter_score   |-> TwitterScraper_calculate_twitter_score(
                                        stats.followers_count, 100, FALSE) ]) ]

\* lines 159-170: the engagement_details row of the metrics row just added
InsertEngagement(tables, stats) ==
  [ tables EXCEPT !.engagement =
      Append(@, [ metric_id       |-> Len(tables.metrics),
                  tweets_analyzed |-> stats.engagement_details[1] ]) ]

\* a rollback that leaves the statements of the transaction in place
RollbackKeepsWork(before, working) == working

\* line 175: conn.rollback() undoes every statement of the transaction
Rollback(before, working) == before

\* save_twitter_stats(stats) on `tables` at second `timestamp`: the tables
\* it leaves and what it returns ("raised" when an exception leaves it: for
\* an argument that is no dict the handler's stats.get of line 176 raises)
save_twitter_stats(tables, stats, timestamp) ==
  LET with_user == UpsertUser(tables, stats)
      with_row  == InsertMetrics(with_user, stats, timestamp)
      with_all  == IF stats.engagement_details # None
                   THEN InsertEngagement(with_row, stats)
                   ELSE with_row
  IN  IF stats.defect = "not_a_dict"
      THEN [ tables |-> Rollback(tables, tables), returned |-> "raised" ]
      ELSE IF stats.username = ""
      THEN [ tables |-> Rollback(tables, tables), returned |-> "False" ]
      ELSE IF stats.defect = "followers_count"
      THEN [ tables |-> Rollback(tables, with_user), returned |-> "False" ]
      ELSE IF stats.defect = "engagement_details"
      THEN [ tables |-> Rollback(tables, with_row), returned |-> "False" ]
      ELSE [ tables |-> with_all, returned |-> "True" ]

\* save_twitter_stats(stats) called by the application
SaveTwitterStats ==
  /\ Len(db_metrics) < MaxRows
  /\ \E stats \in SaveInputs :
       LET r == save_twitter_stats(Tables, stats, now)
       IN  /\ db_users' = r.tables.users
           /\ db_profiles' = r.tables.profiles
           /\ db_metrics' = r.tables.metrics
           /\ db_engagement' = r.tables.engagement
           /\ db_call' = Some([ fn       |-> "save_twitter_stats",
                                args     |-> stats,
                                returned |-> r.returned,
                                before   |-> Tables ])
  /\ db_result' = None
  /\ UNCHANGED << now, pubVars, update_lock, leaderboard_json, schedVars, reqVars,
                  histVars, liveVars, evalVars, db_imported, db_reader,
                  scraper_open >>

\* the rows of a user that ROW_NUMBER() OVER (PARTITION BY user_id ORDER BY
\* timestamp DESC) may number 1: every row with the user's greatest timestamp
\* (SQL leaves the order of rows with equal timestamps open)
RankedFirst(metrics, user_id) ==
  { r \in { metrics[i] : i \in 1..Len(metrics) } :
      /\ r.user_id = user_id
      /\ \A i \in 1..Len(metrics) :
           metrics[i].user_id = user_id => metrics[i].timestamp <= r.timestamp }

\* the followers_count the "previous metrics" query of lines 217-226 may
\* give for a row: that of an earlier-stamped row of the user with the
\* greatest timestamp, or the row's own when there is none
PrevFollowers(metrics, row) ==
  LET earlier == { r \in { metrics[i] : i \in 1..Len(metrics) } :
                     r.user_id = row.user_id /\ r.timestamp < row.timestamp }
      last == { r \in earlier : \A q \in earlier : q.timestamp <= r.timestamp }
  IN  IF earlier = {} THEN { row.followers_count }
      ELSE { r.followers_count : r \in last }

\* lines 229-241: tweets_analyzed of the engagement_details row of a metrics
\* row, 0 when it has none
TweetsAnalyzed(engagement, metric_id) ==
  IF \E i \in 1..Len(engagement) : engagement[i].metric_id = metric_id
  THEN LET i == CHOOSE i \in 1..Len(engagement) : engagement[i].metric_id = metric_id
       IN  engagement[i].tweets_analyzed
  ELSE 0

\* lines 191-207: the rows the main query may give for a user, each a metrics
\* row numbered 1 joined with the user's row
JoinedFirst(tables, user_id) ==
  { [ metric   |-> r,
      username |-> tables.users[user_id],
      verified |-> tables.profiles[user_id] ] :
      r \in RankedFirst(tables.metrics, user_id) }

\* lines 214-269: the entries that may be built for a row of the main query,
\* with the tables as they are when its two queries run
Entries(tables, joined) ==
  { [ username        |-> joined.username,
      verified        |-> joined.verified,
      followers_count |-> joined.metric.followers_count,
      follower_change |-> joined.metric.followers_count - prev,
      twitter_score   |-> joined.metric.twitter_score,
      tweets_analyzed |-> TweetsAnalyzed(tables.engagement, joined.metric.id),
      growth_status   |-> "Stable" ] :
      prev \in PrevFollowers(tables.metrics, joined.metric) }

\* the entries lines 243-269 may build for a user
LatestEntries(tables, user_id) ==
  UNION { Entries(tables, joined) : joined \in JoinedFirst(tables, user_id) }

\* line 206: ORDER BY followers_count DESC
OrderedByFollowers(q) ==
  \A i \in 1..Len(q) - 1 : q[i].followers_count >= q[i + 1].followers_count

\* get_latest_leaderboard(): one entry for each user with a metrics row, in
\* an order the ORDER BY allows
GetLatestLeaderboard ==
  /\ db_result = None
  /\ db_reader = None
  /\ LET with_rows == { u \in 1..Len(db_users) : RankedFirst(db_metrics, u) # {} }
         entries == UNION { LatestEntries(Tables, u) : u \in with_rows }
     IN  \E q \in [ 1..Cardinality(with_rows) -> entries ] :
           /\ \A u \in with_rows :
                \E i \in 1..Len(q) : q[i].username = db_users[u]
           /\ OrderedByFollowers(q)
           /\ db_result' = Some(q)
  /\ db_call' = None
  /\ UNCHANGED << now, pubVars, update_lock, leaderboard_json, schedVars, reqVars,
                  histVars, liveVars, evalVars, db_users, db_profiles, db_metrics,
                  db_engagement, db_imported, db_reader, scraper_open >>

\* s[-n:] of Python for n >= 0: the last n elements, and all of s for n = 0
LastSlice(s, n) ==
  IF n = 0 \/ n >= Len(s) THEN s ELSE SubSeq(s, Len(s) - n + 1, Len(s))

\* lines 304-311: the orders in which ORDER BY timestamp ASC may give the
\* metrics rows of a user
RowsByTimestamp(metrics, user_id) ==
  LET rows == { r \in { metrics[i] : i \in 1..Len(metrics) } : r.user_id = user_id }
  IN  { q \in [ 1..Cardinality(rows) -> rows ] :
          /\ \A i, j \in 1..Len(q) : i # j => q[i] # q[j]
          /\ \A i \in 1..Len(q) - 1 : q[i].timestamp <= q[i + 1].timestamp }

\* lines 322-327: a row as the function returns it
HistoryPoint(r) ==
  [ timestamp |-> r.timestamp, followers_count |-> r.followers_count ]

\* get_historical_data(username, days) on `tables`: what it may return
get_historical_data(tables, username, days) ==
  LET user_id == UserId(tables.users, username)
  IN  IF user_id = 0 THEN { << >> }
      ELSE { LET results == IF Len(q) > days THEN LastSlice(q, days) ELSE q
             IN  [ i \in 1..Len(results) |-> HistoryPoint(results[i]) ] :
             q \in RowsByTimestamp(tables.metrics, user_id) }

\* the limits get_historical_data is called with
Days == 0..2

\* a username no save has seen
UnknownUsername == "nobody"

\* get_historical_data(username, days) called by the application
GetHistoricalData ==
  /\ db_reader = None
  /\ \E username \in StoreUsernames \cup { UnknownUsername }, days \in Days :
       \E returned \in get_historical_data(Tables, username, days) :
         db_call' = Some([ fn       |-> "get_historical_data",
                           args     |-> << username, days >>,
                           returned |-> returned,
                           before   |-> Tables ])
  /\ db_result' = None
  /\ UNCHANGED << now, pubVars, update_lock, leaderboard_json, schedVars, reqVars,
                  histVars, liveVars, evalVars, db_users, db_profiles, db_metrics,
                  db_engagement, db_imported, db_reader, scraper_open >>

\* get_latest_leaderboard() next to writers, lines 191-210: the main query
\* gives one joined row for each user with a metrics row, in an order the
\* ORDER BY allows
LeaderboardQuery ==
  /\ db_reader = None
  /\ db_result = None
  /\ LET with_rows == { u \in 1..Len(db_users) : RankedFirst(db_metrics, u) # {} }
         joined == UNION { JoinedFirst(Tables, u) : u \in with_rows }
     IN  \E q \in [ 1..Cardinality(with_rows) -> joined ] :
           /\ \A u \in with_rows :
                \E i \in 1..Len(q) : q[i].username = db_users[u]
           /\ \A i \in 1..Len(q) - 1 :
                q[i].metric.followers_count >= q[i + 1].metric.followers_count
           /\ db_reader' = Some([ rows |-> q, leaderboard |-> << >> ])
  /\ UNCHANGED << now, pubVars, update_lock, leaderboard_json, schedVars, reqVars,
                  histVars, liveVars, evalVars, db_users, db_profiles, db_metrics,
                  db_engagement, db_result, db_call, db_imported,
                  scraper_open >>

\* lines 212-273: the next row's two queries run on the tables as they are
\* by then, and its entry is appended
LeaderboardRow ==
  /\ db_reader # None
  /\ db_reader[1].rows # << >>
  /\ \E entry \in Entries(Tables, Head(db_reader[1].rows)) :
       db_reader' = Some([ rows        |-> Tail(db_reader[1].rows),
                           leaderboard |-> Append(db_reader[1].leaderboard, entry) ])
  /\ UNCHANGED << now, pubVars, update_lock, leaderboard_json, schedVars, reqVars,
                  histVars, liveVars, evalVars, db_users, db_profiles, db_metrics,
                  db_engagement, db_result, db_call, db_imported,
                  scraper_open >>

\* line 275: return leaderboard
LeaderboardReturn ==
  /\ db_reader # None
  /\ db_reader[1].rows = << >>
  /\ db_result' = Some(db_reader[1].leaderboard)
  /\ db_reader' = None
  /\ UNCHANGED << now, pubVars, update_lock, leaderboard_json, schedVars, reqVars,
                  histVars, liveVars, evalVars, db_users, db_profiles, db_metrics,
                  db_engagement, db_call, db_imported, scraper_open >>

\* a reader thread of the database
Reader == LeaderboardQuery \/ LeaderboardRow \/ LeaderboardReturn \/ GetHistoricalData

\* a JSON file of the data directory: the shape of its top level ("list",
\* "wrapped" for an object with the list under 'data', "other" for anything
\* else that parses) and the entries of its list
File(shape, entries) == [ shape |-> shape, entries |-> entries ]

\* lines 364-371: the list of stats taken from a parsed file
StatsList(file) ==
  IF file.shape \in { "list", "wrapped" } THEN file.entries ELSE << >>

\* lines 382-402: the copy handed to save_twitter_stats, which always has an
\* engagement_details dict
StatsCopy(stats) ==
  [ stats EXCEPT !.engagement_details =
      IF stats.engagement_details # None THEN @ ELSE Some(0) ]

RECURSIVE ImportStats(_, _, _)
\* lines 374-405: every entry that is a dict with a username is saved, one
\* save_twitter_stats call each, whatever it returns
ImportStats(tables, stats_list, timestamp) ==
  IF stats_list = << >> THEN tables
  ELSE LET stats == Head(stats_list)
           skipped == stats.defect = "not_a_dict" \/ stats.username = ""
           saved == save_twitter_stats(tables, StatsCopy(stats), timestamp).tables
       IN  ImportStats(IF skipped THEN tables ELSE saved, Tail(stats_list), timestamp)

RECURSIVE import_existing_json_data(_, _, _)
\* import_existing_json_data() on `tables` with `json_files` in the data
\* directory: the tables it leaves
import_existing_json_data(tables, json_files, timestamp) ==
  IF json_files = << >> THEN tables
  ELSE import_existing_json_data(
         ImportStats(tables, StatsList(Head(json_files)), timestamp),
         Tail(json_files), timestamp)

\* the data directories the import finds: a leaderboard.json alone, and one
\* next to a list file with an entry that is no dict and a file of another shape
DataDirs ==
  LET first  == Stats(TrackedTokens[1], 100, FALSE, None, "none")
      second == Stats(TrackedTokens[2], 150, TRUE, Some(5), "none")
      junk   == Stats(TrackedTokens[1], 100, FALSE, None, "not_a_dict")
  IN  { << File("wrapped", << first >>) >>,
        << File("list", << junk, second >>), File("other", << first >>),
           File("wrapped", << first >>) >> }

\* the metrics rows an import of json_files adds
RowsImported(json_files) ==
  Len(import_existing_json_data(
        [ users |-> << >>, profiles |-> << >>, metrics |-> << >>,
          engagement |-> << >> ], json_files, 0).metrics)

\* import_existing_json_data() called by the application; `again` tells
\* whether the same directory content was imported before
ImportExistingJsonData ==
  /\ db_reader = None
  /\ \E json_files \in DataDirs :
       LET tables == import_existing_json_data(Tables, json_files, now)
       IN  /\ Len(db_metrics) + RowsImported(json_files) <= MaxRows
           /\ db_users' = tables.users
           /\ db_profiles' = tables.profiles
           /\ db_metrics' = tables.metrics
           /\ db_engagement' = tables.engagement
           /\ db_call' = Some([ fn       |-> "import_existing_json_data",
                                args     |-> json_files,
                                returned |-> None,
                                before   |-> Tables,
                                again    |-> json_files \in db_imported ])
           /\ db_imported' = db_imported \cup { json_files }
  /\ db_result' = None
  /\ UNCHANGED << now, pubVars, update_lock, leaderboard_json, schedVars, reqVars,
                  histVars, liveVars, evalVars, db_reader, scraper_open >>

Database ==
  \/ GetUserId
  \/ SaveTwitterStats
  \/ GetLatestLeaderboard
  \/ GetHistoricalData
  \/ ImportExistingJsonData

(* --------------------------- specifications --------------------------- *)

\* the application: the scheduler thread and the serving thread
Next == Scheduler \/ Serving

Spec == Init /\ [][Next]_vars

\* the scheduler next to the live path writing the history store
NextStore == Scheduler \/ SaveFollowerData

SpecStore == Init /\ [][NextStore]_vars

\* the history store alone, over days
NextHistory == SaveFollowerData \/ Tick

SpecHistory == Init /\ [][NextHistory]_vars

\* the live path: generate_leaderboard called again and again as time passes
NextLive == GenerateLeaderboard \/ LiveTick \/ Close

SpecLive == Init /\ [][NextLive]_vars

\* the growth functions of the history store, each applied once
NextGrowth ==
  \/ EvalGrowthMetrics
  \/ EvalFollowerGrowth
  \/ EvalDetectSpike
  \/ EvalScrapeToken
  \/ EvalTick

SpecGrowth == Init /\ [][NextGrowth]_vars

\* the scoring, merging and scraping functions, each applied once
NextScoring ==
  \/ EvalGrowthStatus
  \/ EvalProcessLeaderboard
  \/ EvalTwitterScore
  \/ EvalScraperScore
  \/ EvalScrapeAccountStats

SpecScoring == Init /\ [][NextScoring]_vars

\* the metrics store as time passes
NextDatabase == Database \/ Tick

SpecDatabase == Init /\ [][NextDatabase]_vars

\* readers of the metrics store next to a writer, as time passes
NextReaders == SaveTwitterStats \/ Reader \/ Tick

SpecReaders == Init /\ [][NextReaders]_vars

\* the writers of the metrics store, as time passes
NextWriters == GetUserId \/ SaveTwitterStats \/ ImportExistingJsonData \/ Tick

SpecWriters == Init /\ [][NextWriters]_vars

\* app.py lines 127-141: the steps update_leaderboard takes inside
\* `with update_lock`, a raising one listed before the one that returns
CriticalSection ==
  \/ MergeFault
  \/ Merge
  \/ Stamp
  \/ PersistFault
  \/ Persist

\* the scheduler thread of NextFair: every step of Scheduler, the loop entered
\* FairCycles times at most
NextFair ==
  \/ GetTrackedTokens /\ cycle < FairCycles
  \/ ScrapeAccountStats
  \/ GetTwitterDataError
  \/ GetTwitterDataReturn
  \/ GetMarketData
  \/ CollectFault
  \/ AcquireLock
  \/ CriticalSection
  \/ Wake
  \/ Cancel
  \/ RunAsyncUpdateFinally
  \/ Serving

\* every step of a thread changes its position or the list of scrapes done
position == << sched_pc, scraped, req_pc >>

\* the application with its threads kept running: the scheduler thread, once
\* inside `with update_lock`, takes its next step, and a serving thread blocked
\* in `with update_lock` gets the lock at one of its releases (the scheduler
\* sleeps at least BACKOFF_INTERVAL seconds between two critical sections)
SpecFair ==
  /\ Init /\ [][NextFair]_vars
  /\ WF_position(CriticalSection)
  /\ SF_position(IndexAcquire)

(* ------------------------------- claims ------------------------------- *)

\* the cycle in progress has assigned current_leaderboard
PublishedThisCycle == current_leaderboard.written_at = Some(now)

\* the cycle has reached its sleep without raising
CycleEndedClean == sched_pc = "sleeping" /\ fault = "none"

Usernames(entries) == { entries[i].username : i \in 1..Len(entries) }

\* the tracked tokens whose profile fetch returned stats this cycle
Fetched == { get_tracked_tokens[i] : i \in { j \in 1..Len(scraped) : scraped[j] # None } }

\* C1: every response of the index page and of /api/leaderboard carries a
\* leaderboard and a last_update timestamp written by the same cycle.
C1_ReadsSeeOneCycle ==
  req_pc \in { "api_respond", "index_respond" } => req_lb.written_at = req_ts

\* C2: when the write of leaderboard.json raises, current_leaderboard and
\* last_update are still those of the previous cycle (nothing was swapped).
C2_FailedWriteKeepsPrevious ==
  (sched_pc = "sleeping" /\ fault = "persist")
    => (current_leaderboard.written_at # Some(now) /\ last_update # Some(now))

\* C3: whatever subset of the profile fetches fails, as long as one succeeds,
\* the cycle goes on to publish a leaderboard with exactly one entry for each
\* subject whose fetch succeeded and none for the others.
C3_PartialCyclePublishes ==
  ( /\ Len(scraped) = Len(get_tracked_tokens)
    /\ Fetched # {}
    /\ sched_pc \in { "stamp", "persist", "sleeping" }
    /\ fault \notin { "collect", "merge" } )
    => ( /\ PublishedThisCycle
         /\ Usernames(current_leaderboard.data) = Fetched
         /\ Len(current_leaderboard.data) = Cardinality(Fetched) )

C3_Witness ==
  /\ CycleEndedClean
  /\ PublishedThisCycle
  /\ Fetched # {}
  /\ Fetched # TokenSet
  /\ Usernames(current_leaderboard.data) = Fetched

\* C4: a fault raised inside a cycle never ends the loop: the step that raises
\* it leads to the backoff sleep, the sleep leads back to the top of the loop,
\* and the only step that ends the loop is a cancellation at an await.
C4_FaultsNeverEndLoop ==
  [][ /\ (fault = "none" /\ fault' # "none") => sched_pc' = "sleeping"
      /\ (sched_pc = "sleeping" /\ sched_pc' # "sleeping")
           => sched_pc' \in { "get_tracked_tokens", "stopped" }
      /\ (sched_pc # "stopped" /\ sched_pc' = "stopped")
           => ( /\ fault' = fault
                /\ sched_pc \in { "get_twitter_data", "get_market_data", "sleeping" } )
    ]_vars

C4_Witness ==
  /\ cycle = 2
  /\ sched_pc = "get_twitter_data"
  /\ sleep_arg = BACKOFF_INTERVAL
  /\ now = BACKOFF_INTERVAL

\* C5: a cycle that fails while collecting or merging leaves
\* current_leaderboard and last_update as they were before the cycle, through
\* the failure and the backoff sleep that follows.
C5_FailedCycleKeepsSnapshot ==
  (sched_pc = "sleeping" /\ fault \in { "collect", "merge" })
    => (current_leaderboard.written_at # Some(now) /\ last_update # Some(now))

C5_Witness ==
  /\ sched_pc = "sleeping"
  /\ fault = "merge"
  /\ last_update # None
  /\ current_leaderboard.written_at = last_update
  /\ current_leaderboard.data # << >>

\* C6: the sleep that follows a cycle lasts 60 s when the cycle raised and
\* 300 s when it did not; one sleep, and no more, separates two cycles.
C6_BackoffAfterFailure ==
  [][ (sched_pc = "sleeping" /\ sched_pc' = "get_tracked_tokens")
        => now' - now = (IF fault = "none" THEN 300 ELSE 60) ]_vars

C6_Witness ==
  /\ sched_pc = "get_tracked_tokens"
  /\ fault # "none"
  /\ cycle = 1
  /\ now = 60

\* C7 as stated: a cycle that ends without raising and in which exactly one of
\* the two sources returned nothing for every subject has published.
NoProfileFacts == twitter_data = << >>
NoMarketFacts == \A t \in DOMAIN market_data : market_data[t] = ZeroQuote

C7_PublishesUnlessBothFail ==
  (CycleEndedClean /\ (NoProfileFacts # NoMarketFacts)) => PublishedThisCycle

\* C7 amended: a cycle that ends without raising has published exactly when at
\* least one profile fetch succeeded, whatever the market source returned.
C7_PublishesIffProfileFacts ==
  CycleEndedClean => (PublishedThisCycle <=> ~NoProfileFacts)

C7_Witness ==
  /\ CycleEndedClean
  /\ NoMarketFacts
  /\ ~NoProfileFacts
  /\ PublishedThisCycle

\* C8: a cycle that published has appended to the history store one point
\* (cycle time, follower count) for every subject of its leaderboard.
C8_CycleAppendsHistory ==
  (CycleEndedClean /\ PublishedThisCycle)
    => \A i \in 1..Len(current_leaderboard.data) :
         LET e == current_leaderboard.data[i]
             h == follower_history[e.username]
         IN  \E j \in 1..Len(h) :
               h[j] = [ timestamp |-> now, followers |-> e.followers_count ]

\* C9: the growth values, the growth_status and the twitter_score of every
\* entry the merge step assigns are those computed from the subject's stored
\* history at that moment.
EntryMatchesHistory(e, history, current_time) ==
  LET g == calculate_growth_metrics(history, current_time)
  IN  /\ FracEq(e.growth_5m, g.change_5m)
      /\ FracEq(e.growth_15m, g.change_15m)
      /\ FracEq(e.growth_30m, g.change_30m)
      /\ FracEq(e.growth_1h, g.change_1h)
      /\ FracEq(e.growth_4h, g.change_4h)
      /\ FracEq(e.growth_6h, g.change_6h)
      /\ FracEq(e.growth_12h, g.change_12h)
      /\ FracEq(e.growth_18h, g.change_18h)
      /\ FracEq(e.growth_24h, g.change_24h)
      /\ e.growth_status = determine_growth_status(g)
      /\ e.twitter_score =
           calculate_twitter_score(e.followers_count, e.engagement_rate,
                                   g.change_1h, g.change_24h, e.verified)

C9_EntriesCarryComputedGrowth ==
  [][ (sched_pc = "merge" /\ sched_pc' = "stamp")
        => \A i \in 1..Len(current_leaderboard'.data) :
             LET e == current_leaderboard'.data[i]
             IN  EntryMatchesHistory(e, follower_history[e.username], now) ]_vars

\* C10: every stored history is ordered by non-decreasing timestamp, and the
\* history an append made at time t has just written holds the appended point
\* and no point with timestamp at or before t - 24 h.
C10_HistorySortedAndPruned ==
  /\ \A t \in TokenSet :
       LET h == follower_history[t]
       IN  \A i \in 1..Len(h) - 1 : h[i].timestamp <= h[i + 1].timestamp
  /\ last_save # None =>
       LET h == follower_history[last_save[1].username]
           t == last_save[1].current_time
       IN  /\ \E i \in 1..Len(h) : h[i].timestamp = t
           /\ \A i \in 1..Len(h) : h[i].timestamp > t - 86400

\* an append has just dropped a point that had aged out, next to one it kept
C10_Witness ==
  /\ last_save # None
  /\ last_save[1].dropped > 0
  /\ Len(follower_history[last_save[1].username]) >= 2

\* how often the point p occurs in the history h
Count(h, p) == Cardinality({ i \in 1..Len(h) : h[i] = p })

\* C11: while the scrape tasks of one generate_leaderboard call run, in any
\* interleaving, the history of a token whose task has not appended is as the
\* call found it, and the history of a token whose task has appended holds
\* every earlier point still inside the retention window, as often as before,
\* plus the one new point, and nothing else: no append is lost and none lands
\* in another token's history.
C11_NoAppendLostOrMisplaced ==
  live_pc = "gather" =>
    \A i \in 1..Len(tasks) :
      LET before == live_before[tasks[i].token]
          after == follower_history[tasks[i].token]
      IN  IF tasks[i].appended = None THEN after = before
          ELSE LET new == tasks[i].appended[1]
                   kept == { k \in 1..Len(before) :
                               before[k].timestamp > new.timestamp - RETENTION }
               IN  /\ \A k \in kept :
                        Count(after, before[k]) =
                          Count(before, before[k])
                            + (IF before[k] = new THEN 1 ELSE 0)
                   /\ Count(after, new) >= 1
                   /\ Len(after) = Cardinality(kept) + 1

\* two tasks have appended, the first while the second was still waiting for
\* its stats and the second before the first got its market data, and both
\* histories held a point from an earlier call
C11_Witness ==
  /\ live_pc = "gather"
  /\ \E i, j \in 1..Len(tasks) :
       /\ i # j
       /\ tasks[i].pc = "market"
       /\ tasks[j].pc = "market"
       /\ live_before[tasks[i].token] # << >>
       /\ live_before[tasks[j].token] # << >>

\* the evaluation recorded in call / result is one of the function fn
Evaluated(fn) == call # None /\ call[1].fn = fn

\* the positions of history whose point lies at or before cutoff and has no
\* later point at or before cutoff after it
LatestAtOrBefore(history, cutoff) ==
  { i \in 1..Len(history) :
      /\ history[i].timestamp <= cutoff
      /\ \A j \in i + 1..Len(history) : history[j].timestamp > cutoff }

\* C12: for each of the nine windows, when the history has a point at or before
\* now - window, the change computeGrowth reports is the percentage change from
\* the follower count of the latest such point (a point exactly on the cutoff
\* counts, a later point never does) to the follower count of the history's
\* most recent point.  (A reference with 0 followers has no percentage change;
\* C13 covers it.)
C12_ReferenceIsLatestAtOrBeforeCutoff ==
  Evaluated("_calculate_growth_metrics") =>
    LET history == call[1].history
        current == history[Len(history)].followers
    IN  \A name \in DOMAIN Intervals :
          \A i \in LatestAtOrBefore(history, call[1].current_time - Intervals[name]) :
            history[i].followers > 0 =>
              result[1][name][1] * history[i].followers
                = (current - history[i].followers) * 100 * result[1][name][2]

\* a history with a point exactly one hour old and a nearer point with another
\* count: change_1h is measured from the point on the cutoff
C12_Witness ==
  /\ Evaluated("_calculate_growth_metrics")
  /\ LET history == call[1].history
         t == call[1].current_time
     IN  \E i, j \in 1..Len(history) :
           /\ history[i].timestamp = t - 3600
           /\ history[j].timestamp = t - 3599
           /\ history[i].followers = 100
           /\ history[j].followers = 150
           /\ history[Len(history)].followers = 150
           /\ FracEq(result[1]["change_1h"], << 50, 1 >>)

\* C13: computeGrowth reports 0 for a window when the history has no point at
\* or before the window's cutoff or when the reference point's follower count
\* is 0; for an empty or missing history it reports 0 for all nine windows and
\* growth_rate 0.
C13_ZeroWithoutUsableReference ==
  /\ Evaluated("_calculate_growth_metrics") =>
       LET history == call[1].history
       IN  \A name \in DOMAIN Intervals :
             LET ref == LatestAtOrBefore(history,
                                         call[1].current_time - Intervals[name])
             IN  (ref = {} \/ \E i \in ref : history[i].followers = 0)
                   => result[1][name][1] = 0
  /\ Evaluated("_calculate_follower_growth") =>
       LET file == call[1].file
       IN  /\ (file = None \/ file = Some(<< >>)) =>
             /\ DOMAIN result[1] = DOMAIN Intervals \cup { "growth_rate" }
             /\ \A name \in DOMAIN result[1] : result[1][name][1] = 0
           /\ file # None /\ file # Some(<< >>) =>
                \A name \in DOMAIN Intervals :
                  LET ref == LatestAtOrBefore(file[1],
                                              call[1].current_time - Intervals[name])
                  IN  (ref = {} \/ \E i \in ref : file[1][i].followers = 0)
                        => result[1][name][1] = 0

\* the reference of the one-hour window has 0 followers while the latest point
\* has some, and the 24-hour window has no reference at all
C13_Witness ==
  /\ Evaluated("_calculate_growth_metrics")
  /\ LET history == call[1].history
         t == call[1].current_time
     IN  /\ Len(history) >= 2
         /\ history[Len(history)].followers > 0
         /\ history[Len(history)].timestamp = t - 3599
         /\ \E i \in LatestAtOrBefore(history, t - 3600) : history[i].followers = 0
         /\ LatestAtOrBefore(history, t - 86400) = {}
         /\ result[1]["change_1h"][1] = 0
         /\ result[1]["change_24h"][1] = 0

C15_GrowthStatusFirstMatch ==
  Evaluated("determine_growth_status") =>
    LET m == call[1].growth_metrics
        g5m  == IF "change_5m" \in DOMAIN m THEN m["change_5m"] ELSE Zero
        g15m == IF "change_15m" \in DOMAIN m THEN m["change_15m"] ELSE Zero
        g30m == IF "change_30m" \in DOMAIN m THEN m["change_30m"] ELSE Zero
        g1h  == IF "change_1h" \in DOMAIN m THEN m["change_1h"] ELSE Zero
        spike == \/ g5m[1] >= 2 * g5m[2]
                 \/ g15m[1] >= 5 * g15m[2]
                 \/ g30m[1] >= 8 * g30m[2]
                 \/ g1h[1] >= 10 * g1h[2]
        label == result[1]
    IN  /\ label \in { "Spiking", "Fast Growth", "Growing", "Declining", "Stable" }
        /\ label = "Spiking" <=> spike
        /\ label = "Fast Growth" <=> ~spike /\ g1h[1] >= 5 * g1h[2]
        /\ label = "Growing" <=> ~spike /\ g1h[1] < 5 * g1h[2] /\ g1h[1] > 0
        /\ label = "Declining" <=> ~spike /\ g1h[1] < 0
        /\ label = "Stable" <=> ~spike /\ g1h[1] = 0

\* the five-minute threshold is met exactly while the one-hour change is
\* negative and no other threshold is met: the label is Spiking
C15_Witness ==
  /\ Evaluated("determine_growth_status")
  /\ call[1].growth_metrics # << >>
  /\ call[1].growth_metrics["change_5m"] = << 2, 1 >>
  /\ call[1].growth_metrics["change_15m"] = << 49, 10 >>
  /\ call[1].growth_metrics["change_30m"] = << 79, 10 >>
  /\ call[1].growth_metrics["change_1h"] = << -1, 1 >>
  /\ result[1] = "Spiking"

\* C16: the list process_leaderboard_data returns has exactly one entry for
\* each subject with profile facts and none for any other; an entry of a
\* subject without market facts has price, price_change_24h and market_cap 0;
\* and the entries are in non-increasing order of twitter_score.
C16_MergeOneEntryEachByScore ==
  Evaluated("process_leaderboard_data") =>
    LET twitter == call[1].twitter_data
        market == call[1].market_data
        lb == result[1]
    IN  /\ Len(lb) = Len(twitter)
        /\ \A i \in 1..Len(twitter) :
             Cardinality({ k \in 1..Len(lb) : lb[k].username = twitter[i].username }) = 1
        /\ \A k \in 1..Len(lb) :
             /\ \E i \in 1..Len(twitter) :
                  /\ twitter[i].username = lb[k].username
                  /\ twitter[i].followers_count = lb[k].followers_count
             /\ lb[k].username \notin DOMAIN market =>
                  lb[k].price = 0 /\ lb[k].price_change_24h = 0 /\ lb[k].market_cap = 0
             /\ lb[k].username \in DOMAIN market =>
                  /\ lb[k].price = market[lb[k].username].price
                  /\ lb[k].market_cap = market[lb[k].username].market_cap
        /\ \A k \in 1..Len(lb) - 1 : lb[k].twitter_score >= lb[k + 1].twitter_score

\* profile facts arrive lowest score first, one subject has no market facts:
\* the list comes back highest score first, that subject's market fields 0
C16_Witness ==
  /\ Evaluated("process_leaderboard_data")
  /\ Len(call[1].twitter_data) >= 2
  /\ call[1].twitter_data[1].followers_count < call[1].twitter_data[2].followers_count
  /\ ~call[1].twitter_data[1].verified /\ ~call[1].twitter_data[2].verified
  /\ call[1].twitter_data[2].username \notin DOMAIN call[1].market_data
  /\ call[1].twitter_data[1].username \in DOMAIN call[1].market_data
  /\ call[1].market_data[call[1].twitter_data[1].username] = LiveQuote
  /\ result[1][1].username = call[1].twitter_data[2].username
  /\ result[1][1].price = 0
  /\ result[1][1].twitter_score > result[1][2].twitter_score

C18_LogGuardBelowOne ==
  (Evaluated("calculate_twitter_score") /\ call[1].followers < 1) =>
    result[1] = calculate_twitter_score(1, call[1].engagement_rate,
                                        call[1].growth_1h, call[1].growth_24h,
                                        call[1].verified)

\* a negative followers value with every multiplier above 1
C18_Witness ==
  /\ Evaluated("calculate_twitter_score")
  /\ call[1].followers = -5
  /\ call[1].engagement_rate = 100
  /\ call[1].growth_1h = << 50, 1 >>
  /\ call[1].verified
  /\ result[1] = 0

\* C19: _calculate_twitter_score returns an integer from 0 to 1000 for every
\* followers, engagement_rate and verified value, and 0 whenever
\* followers <= 0; calculate_twitter_score never returns a negative score.
C19_ScoresBounded ==
  /\ Evaluated("_calculate_twitter_score") =>
       /\ result[1] \in 0..1000
       /\ call[1].followers <= 0 => result[1] = 0
  /\ Evaluated("calculate_twitter_score") => result[1] >= 0

\* ten million followers, the largest engagement multiplier and the
\* verification bonus: the product is above 1000 and the score is 1000
C19_Witness ==
  /\ Evaluated("_calculate_twitter_score")
  /\ call[1].followers = 10000000
  /\ call[1].engagement_rate = 100000
  /\ call[1].verified
  /\ result[1] = 1000

\* the metrics row written last for a user
LastWritten(metrics, user_id) ==
  LET ids == { i \in 1..Len(metrics) : metrics[i].user_id = user_id }
  IN  metrics[CHOOSE i \in ids : \A k \in ids : k <= i]

\* C20: after any sequence of saves, get_latest_leaderboard returns exactly
\* one entry for each subject that has at least one metrics row and none for
\* any other, each entry carries the values of the subject's most recently
\* written metrics row, and the list is ordered by followers_count in
\* non-increasing order.
C20_LatestRowPerSubject ==
  db_result # None =>
    LET lb == db_result[1]
        with_rows == { u \in 1..Len(db_users) :
                         \E i \in 1..Len(db_metrics) : db_metrics[i].user_id = u }
    IN  /\ Len(lb) = Cardinality(with_rows)
        /\ \A u \in with_rows :
             \E k \in 1..Len(lb) :
               /\ lb[k].username = db_users[u]
               /\ lb[k].followers_count = LastWritten(db_metrics, u).followers_count
               /\ lb[k].twitter_score = LastWritten(db_metrics, u).twitter_score
        /\ \A k \in 1..Len(lb) - 1 : lb[k].followers_count >= lb[k + 1].followers_count

\* the last database call, when it was a call of fn
Called(fn) == db_call # None /\ db_call[1].fn = fn

\* the n most recent of the rows q, which are in ascending timestamp order
MostRecent(q, n) == SubSeq(q, Len(q) - n + 1, Len(q))

\* C21: for every subject and every limit >= 0, get_historical_data returns
\* at most limit points, namely the limit most recent metrics rows of the
\* subject as (timestamp, followers_count) in ascending timestamp order, and
\* an empty list for a subject without a users row.
C21_HistoryIsLimitMostRecent ==
  Called("get_historical_data") =>
    LET username == db_call[1].args[1]
        limit    == db_call[1].args[2]
        returned == db_call[1].returned
        user_id  == UserId(db_users, username)
    IN  /\ Len(returned) <= limit
        /\ user_id = 0 => returned = << >>
        /\ user_id # 0 =>
             \E q \in RowsByTimestamp(db_metrics, user_id) :
               LET recent == MostRecent(q, IF limit < Len(q) THEN limit ELSE Len(q))
               IN  returned = [ i \in 1..Len(recent) |-> HistoryPoint(recent[i]) ]

\* the stats of a committed write of the subject that account for the
\* values v (followers_count, verified, tweets_analyzed) read back
OneWrite(username, v) ==
  \E i \in 1..Len(db_metrics), stats \in Snapshots(username) :
    /\ db_metrics[i].user_id = UserId(db_users, username)
    /\ db_metrics[i].followers_count = stats.followers_count
    /\ v.followers_count = stats.followers_count
    /\ v.verified = stats.verified
    /\ v.tweets_analyzed = IF stats.engagement_details = None THEN 0
                           ELSE stats.engagement_details[1]

\* C22: a get_latest_leaderboard or get_historical_data call that runs while
\* saves are in progress returns, for each subject, values that all belong
\* to one committed write of that subject: the identity fields, the metrics
\* row and the engagement details of an entry come from the same save, and a
\* history point is a metrics row of the subject.
C22_ReadsFromOneWrite ==
  /\ db_result # None =>
       \A k \in 1..Len(db_result[1]) :
         OneWrite(db_result[1][k].username, db_result[1][k])
  /\ Called("get_historical_data") =>
       \A k \in 1..Len(db_call[1].returned) :
         \E i \in 1..Len(db_metrics) :
           /\ db_metrics[i].user_id = UserId(db_users, db_call[1].args[1])
           /\ HistoryPoint(db_metrics[i]) = db_call[1].returned[k]

\* C25: when the scheduler loop is cancelled or the background driver shuts
\* down, the page, browser context, browser and playwright session held by
\* the scraper are released before the driver finishes: no driver that has
\* finished leaves one of them open.
C25_ResourcesReleasedAtShutdown ==
  sched_pc = "finished" => scraper_open = {}

\* C23: after any sequence of import_existing_json_data, save_twitter_stats
\* and get_user_id calls the users table holds at most one record for each
\* username, and importing the same snapshot files a second time adds no
\* users record.
C23_OneUserPerUsername ==
  /\ \A i, j \in 1..Len(db_users) : db_users[i] = db_users[j] => i = j
  /\ Len(db_profiles) = Len(db_users)
  /\ (Called("import_existing_json_data") /\ db_call[1].again)
       => db_users = db_call[1].before.users

\* a second import of a directory whose subjects were also saved and looked
\* up by the other two functions
C23_Witness ==
  /\ Called("import_existing_json_data")
  /\ db_call[1].again
  /\ Len(db_users) = Cardinality(StoreUsernames)
  /\ Len(db_metrics) > RowsImported(db_call[1].args) + RowsImported(db_call[1].args)

\* C24: importing the same snapshot files twice leaves the metrics table and
\* the engagement_details table with the same rows as importing them once:
\* the second import adds no row.
C24_SecondImportAddsNoRows ==
  (Called("import_existing_json_data") /\ db_call[1].again)
    => /\ db_metrics = db_call[1].before.metrics
       /\ db_engagement = db_call[1].before.engagement

\* C30: save_twitter_stats is all-or-nothing: when it returns False (invalid
\* input, or a failure after the users row was inserted or updated) the
\* users, metrics and engagement_details tables are exactly as before the
\* call; when it returns True exactly one metrics row was added, for the
\* subject, and the subject's users row exists with the given descriptive
\* fields.
C30_SaveAllOrNothing ==
  Called("save_twitter_stats") =>
    LET stats   == db_call[1].args
        before  == db_call[1].before
        user_id == UserId(db_users, stats.username)
    IN  /\ db_call[1].returned = "False" => Tables = before
        /\ db_call[1].returned = "True" =>
             /\ Len(db_metrics) = Len(before.metrics) + 1
             /\ SubSeq(db_metrics, 1, Len(before.metrics)) = before.metrics
             /\ user_id # 0
             /\ db_metrics[Len(db_metrics)].user_id = user_id
             /\ db_metrics[Len(db_metrics)].followers_count = stats.followers_count
             /\ db_profiles[user_id] = stats.verified
             /\ \A u \in 1..Len(before.users) : db_users[u] = before.users[u]

\* a save that failed in the engagement_details insert, after it had updated
\* the subject's users row to other descriptive fields and added the metrics row
C30_Witness ==
  /\ Called("save_twitter_stats")
  /\ db_call[1].returned = "False"
  /\ db_call[1].args.defect = "engagement_details"
  /\ UserId(db_users, db_call[1].args.username) # 0
  /\ db_profiles[UserId(db_users, db_call[1].args.username)] # db_call[1].args.verified
  /\ Len(db_metrics) > 0

C27_NoDayChangeRightAfterAppend ==
  Evaluated("scrape_token") =>
    /\ result[1].growth_metrics["change_24h"][1] = 0
    /\ \A i \in 1..Len(result[1].history) :
         result[1].history[i].timestamp > call[1].current_time - 86400

\* the file held a point exactly a day old with another count: the append
\* dropped it and change_24h is 0
C27_Witness ==
  /\ Evaluated("scrape_token")
  /\ call[1].file # None
  /\ \E i \in 1..Len(call[1].file[1]) :
       /\ call[1].file[1][i].timestamp = call[1].current_time - 86400
       /\ call[1].file[1][i].followers = 100
  /\ call[1].followers_count = 105
  /\ Len(result[1].history) < Len(call[1].file[1]) + 1
  /\ result[1].growth_metrics["change_24h"][1] = 0

\* C28: in scrape_account_stats the profile-navigation loop makes at most 3
\* attempts, and whenever its last attempt fails, by the page load or by the
\* wait for the profile header, the failure propagates: the function returns
\* None and does not go on to collect the stats.
C28_FailedNavigationReturnsNone ==
  Evaluated("scrape_account_stats") =>
    /\ result[1].attempts <= 3
    /\ call[1].outcomes[result[1].attempts] # "loaded"
         => result[1].phase = "returned_none"

\* C29: update_lock is released at the end of every critical section, also
\* when the merge or the leaderboard.json write raises, and the scheduler
\* never holds it while it fetches from the adapters or sleeps; a serving
\* request waiting for the lock therefore eventually acquires it.
C29_LockReleasedAndAcquired ==
  /\ [](update_lock = "scheduler" => sched_pc \in { "merge", "stamp", "persist" })
  /\ [](update_lock = "index" => req_pc \in { "index_data", "index_timestamp" })
  /\ (req_pc = "index_lock") ~> (req_pc = "index_data")

\* a request for the page waits while the scheduler is inside its critical
\* section, about to write leaderboard.json
C29_Witness ==
  /\ req_pc = "index_lock"
  /\ update_lock = "scheduler"
  /\ sched_pc = "persist"

====
